---- MODULE Spec2Model ----
(***************************************************************************)
(* Control plane of the PC automation framework: the tool registry, the    *)
(* plan executor, the confidence scorer and the orchestrator FSM.          *)
(*                                                                         *)
(* Numbers that are floats in the program (confidence values) are kept in  *)
(* hundredths: 1.0 is 100, the penalty 0.3 is 30, the threshold 0.8 is 80. *)
(* An Optional value is a sequence of length 0 (None) or 1 (the value).    *)
(***************************************************************************)
EXTENDS Integers, Sequences, FiniteSets

VARIABLES
    state,        \* Orchestrator.state
    context,      \* Orchestrator.context (ExecutionContext)
    safety_mode,  \* config.safety_mode
    display,      \* Orchestrator._display
    pc,           \* position of the caller: in run, in execute_plan, in the scorer
    plan,         \* execute_plan: the plan argument
    confirm,      \* execute_plan: the confirm_callback argument
    idx,          \* execute_plan: position of the for loop in steps (1-based)
    results,      \* execute_plan: the local results list
    looked,       \* log: registry.get lookups made by the walk
    asked,        \* log: calls of the confirm callback and their answers
    invoked,      \* log: tool callables invoked through registry.execute
    hist,         \* log: the states entered since run was called
    calls,        \* log: calls of the planner, the memory, the scorer, the agents
    sc,           \* the scoring applied to a plan: its inputs and outputs
    pol,          \* the permission policy applied to a tool: its inputs and outputs
    rt,           \* the router applied to a query: its inputs and outputs
    reg,          \* a ToolRegistry being filled: its _tools and the last lookup
    srv,          \* the HTTP server: the shared orchestrator and its requests
    earlier       \* log: what the previous call of run left behind

vars == <<state, context, safety_mode, display, pc, plan, confirm, idx,
          results, looked, asked, invoked, hist, calls, sc, pol, rt, reg, srv,
          earlier>>

----------------------------------------------------------------------------
\* Bounds of the model

\* longest plan handed to execute_plan / produced by the plan generator
MaxSteps == 2

\* longest plan handed to the scoring function
MaxScoredSteps == 5

\* most register calls made on a registry
MaxRegistrations == 3

----------------------------------------------------------------------------
\* Optional values

None == <<>>

Some(x) == <<x>>

IsNone(o) == o = <<>>

Val(o) == o[1]

RECURSIVE SeqsUpTo(_, _)
\* all sequences over S of length at most n
SeqsUpTo(S, n) ==
    IF n = 0 THEN {<<>>}
    ELSE LET shorter == SeqsUpTo(S, n - 1)
         IN  shorter \cup {Append(s, x) : s \in {t \in shorter : Len(t) = n - 1}, x \in S}

----------------------------------------------------------------------------
\* Tool registry (tools/registry.py)

\* ToolRegistry._tools after the tool modules were imported: name -> ToolMeta
\* (risk_level and the number of required parameters are what the core reads)
Tools ==
    [get_cpu_usage             |-> [risk_level |-> "SAFE",   required |-> 0],
     get_memory_usage          |-> [risk_level |-> "SAFE",   required |-> 0],
     get_network_config        |-> [risk_level |-> "SAFE",   required |-> 0],
     check_internet_connection |-> [risk_level |-> "SAFE",   required |-> 0],
     get_file_info             |-> [risk_level |-> "SAFE",   required |-> 1],
     flush_dns                 |-> [risk_level |-> "MEDIUM", required |-> 0],
     kill_process              |-> [risk_level |-> "HIGH",   required |-> 0]]

\* ToolRegistry.list_names
list_names == DOMAIN Tools

\* a tool name that no module registers (what a language model may invent)
GhostTool == "defrag_registry_turbo"

\* ToolRegistry.get: the descriptor, or None for a miss (never raises)
RegistryGet(name) == IF name \in DOMAIN Tools THEN Some(Tools[name]) ELSE None

\* What a tool callable does when it is called
\*   "success"  returns a dict with status "success"
\*   "error"    returns a dict with an embedded status "error"
\*   "plain"    returns a value without a status field
\*   "raise"    raises an exception
CallOutcomes == {"success", "error", "plain", "raise"}

\* ToolRegistry.execute for a registered name: the callable's return value, and
\* every exception of the callable turned into a dict with status "error"
RegistryExecute(outcome) ==
    CASE outcome = "success" -> [dict |-> TRUE,  status |-> Some("success"), raised |-> FALSE]
      [] outcome = "error"   -> [dict |-> TRUE,  status |-> Some("error"),   raised |-> FALSE]
      [] outcome = "plain"   -> [dict |-> FALSE, status |-> None,            raised |-> FALSE]
      [] outcome = "raise"   -> [dict |-> TRUE,  status |-> Some("error"),   raised |-> TRUE]

\* ToolRegistry.get on a registry: self._tools.get(name), which returns None
\* for a miss (self._tools[name] would raise KeyError)
getitem(tools, name) ==
    [value |-> IF name \in DOMAIN tools THEN Some(tools[name]) ELSE None,
     raised |-> name \notin DOMAIN tools]

get(tools, name) ==
    [value |-> IF name \in DOMAIN tools THEN Some(tools[name]) ELSE None,
     raised |-> FALSE]

\* ToolRegistry.execute on a registry: the error dict for a miss, else what
\* calling the tool gives; no exception leaves it
execute(tools, name, outcome) ==
    IF IsNone(get(tools, name).value)
    THEN [result |-> [dict |-> TRUE, status |-> Some("error"), raised |-> FALSE],
          invoked |-> FALSE, raised |-> FALSE]
    ELSE [result |-> RegistryExecute(outcome), invoked |-> TRUE, raised |-> FALSE]

----------------------------------------------------------------------------
\* Plans and steps (the dicts the plan generator and the router produce)

\* tool names a plan step may carry: registered ones of each tier, and a ghost
PlanToolNames == {"get_cpu_usage", "flush_dns", "kill_process", GhostTool}

\* on_failure of a step: absent, or one of the two policies
OnFailures == {None, Some("abort"), Some("continue")}

\* the step at position i of a plan; step ids are plan-unique, not contiguous
StepAt(i, tool_name, on_failure) ==
    [step_id |-> 10 * i, tool_name |-> tool_name, on_failure |-> on_failure]

\* step lists of length at most n over the given tool names and policies
StepLists(names, policies, n) ==
    LET choices == names \X policies
    IN  {[i \in 1..Len(c) |-> StepAt(i, c[i][1], c[i][2])] : c \in SeqsUpTo(choices, n)}

----------------------------------------------------------------------------
\* Plan executor (tools/executor.py)

\* step.get("on_failure", "abort")
on_failure(step) == IF IsNone(step.on_failure) THEN "abort" ELSE Val(step.on_failure)

\* result.get("status", "success") if isinstance(result, dict) else "success"
StepStatusSuccess(result) == "success"

StepStatus(result) ==
    IF result.dict /\ ~IsNone(result.status) THEN Val(result.status) ELSE "success"

\* the ledger entry of a step whose tool is not in the registry
NotFoundEntry(step) ==
    [step_id |-> step.step_id, tool |-> step.tool_name, status |-> "failed",
     error |-> "Tool not found in registry"]

\* the ledger entry of a step the confirm callback denied
DeniedEntry(step) ==
    [step_id |-> step.step_id, tool |-> step.tool_name, status |-> "skipped",
     error |-> "Permission denied by user"]

\* the ledger entry of a step whose tool was run
RunEntry(step, result) ==
    [step_id |-> step.step_id, tool |-> step.tool_name, status |-> StepStatus(result),
     result |-> result]

\* the ledger entry of a step whose _run raised
FaultEntry(step) ==
    [step_id |-> step.step_id, tool |-> step.tool_name, status |-> "failed",
     error |-> "exception"]

\* What Executor._run does for a step
\*   a CallOutcomes value: registry.execute called the tool, which did that
\*   "runfault": _run itself raised before the tool was called (no thread or
\*               event loop could be started)
RunOutcomes == CallOutcomes \cup {"runfault"}

\* What an interactive callback answers
Answers == {"yes", "no", "raise"}

\* FSM states (core/config.py State, as the orchestrator's handler table uses it)
IDLE == "idle"
NEGOTIATING == "negotiating"
DIAGNOSING == "diagnosing"
PLANNING == "planning"
SCORING == "scoring"
VALIDATING == "validating"
EXECUTING == "executing"
REPORTING == "reporting"
LEARNING == "learning"
ERROR_RECOVERY == "error_recovery"

\* Safety modes (config.safety_mode)
SAFE_MODE == "safe"
SEMI_AUTONOMOUS == "semi_autonomous"
AUTONOMOUS == "autonomous"

SafetyModes == {SAFE_MODE, SEMI_AUTONOMOUS, AUTONOMOUS}

\* Displays: none attached, one without ask_permission, one with it
Displays == {"none", "observer", "interactive"}

\* str.upper on the risk strings the registry holds
Upper(risk) ==
    CASE risk \in {"safe", "SAFE"}     -> "SAFE"
      [] risk \in {"medium", "MEDIUM"} -> "MEDIUM"
      [] risk \in {"high", "HIGH"}     -> "HIGH"
      [] OTHER                         -> risk

\* check_permission, lines 313-317: the modes that approve without asking
AutoApprovedLax(mode, risk) ==
    \/ mode = AUTONOMOUS
    \/ mode = SEMI_AUTONOMOUS /\ Upper(risk) # "HIGH"

AutoApproved(mode, risk) ==
    \/ mode = AUTONOMOUS
    \/ mode = SEMI_AUTONOMOUS /\ Upper(risk) = "SAFE"

\* self._display and hasattr(self._display, 'ask_permission')
HasAskPermissionUnchecked(disp) == disp # "none"

HasAskPermission(disp) == disp = "interactive"

\* Orchestrator._handle_executing.check_permission; ans is what
\* display.ask_permission does when it is called
check_permission_open(mode, risk, disp, ans) ==
    IF AutoApproved(mode, risk) THEN "yes"
    ELSE IF HasAskPermission(disp) THEN ans
    ELSE "yes"

check_permission(mode, risk, disp, ans) ==
    IF AutoApproved(mode, risk) THEN "yes"
    ELSE IF HasAskPermission(disp) THEN ans
    ELSE "no"

\* The permission check of one step (executor.py 69-70): what the callback
\* handed to execute_plan answers; "unchecked" when no callback was handed in
ConfirmAnswerClosed(cb, risk, ans) ==
    CASE cb = "none"     -> "no"
      [] cb = "callback" -> ans
      [] cb = "policy"   -> check_permission(safety_mode, risk, display, ans)

ConfirmAnswer(cb, risk, ans) ==
    CASE cb = "none"     -> "unchecked"
      [] cb = "callback" -> ans
      [] cb = "policy"   -> check_permission(safety_mode, risk, display, ans)

\* if not allowed (executor.py 71)
DeniedNever(answer) == FALSE

DeniedWhenAllowed(answer) == answer = "yes"

Denied(answer) == answer = "no"

\* if on_failure == "abort": break, after an unresolved tool (executor.py 60-61)
NotFoundStopsNever(step) == FALSE

NotFoundStopsAlways(step) == TRUE

NotFoundStops(step) == on_failure(step) = "abort"

\* if on_failure == "abort": break, after a denied permission (executor.py 79-80)
DeniedStopsAlways(step) == TRUE

DeniedStops(step) == on_failure(step) = "abort"

\* if on_failure == "abort": break, in the except branch (executor.py 102-103)
FaultStops(step) == on_failure(step) = "abort"

\* One iteration of the for loop of execute_plan on a step: the ledger entry
\* appended, whether the loop is left, whether an exception leaves
\* execute_plan, and what was looked up, asked and invoked.
Iteration(step, cb, ans, run) ==
    LET meta == RegistryGet(step.tool_name)
        risk == Val(meta).risk_level
        answer == ConfirmAnswer(cb, risk, ans)
        base == [entry |-> None, stop |-> FALSE, raised |-> FALSE,
                 asked |-> None, invoked |-> FALSE]
    IN  IF IsNone(meta)
        THEN [base EXCEPT !.entry = Some(NotFoundEntry(step)),
                          !.stop = NotFoundStops(step)]
        ELSE IF answer = "raise"
        THEN [base EXCEPT !.raised = TRUE, !.stop = TRUE,
                          !.asked = Some("raise")]
        ELSE IF Denied(answer)
        THEN [base EXCEPT !.entry = Some(DeniedEntry(step)),
                          !.stop = DeniedStops(step),
                          !.asked = Some("no")]
        ELSE IF run = "runfault"
        THEN [base EXCEPT !.entry = Some(FaultEntry(step)),
                          !.stop = FaultStops(step),
                          !.asked = IF answer = "unchecked" THEN None ELSE Some(answer)]
        ELSE [base EXCEPT !.entry = Some(RunEntry(step, RegistryExecute(run))),
                          !.asked = IF answer = "unchecked" THEN None ELSE Some(answer),
                          !.invoked = TRUE]

\* The effect of one iteration on the variables of the walk
WalkStep(e) ==
    LET step == plan.steps[idx + 1]
    IN  /\ idx' = idx + 1
        /\ results' = IF IsNone(e.entry) THEN results ELSE Append(results, Val(e.entry))
        /\ looked' = Append(looked, [pos |-> idx + 1, tool |-> step.tool_name])
        /\ asked' = IF IsNone(e.asked) THEN asked
                    ELSE Append(asked, [pos |-> idx + 1, tool |-> step.tool_name,
                                        answer |-> Val(e.asked)])
        /\ invoked' = IF e.invoked
                      THEN Append(invoked, [pos |-> idx + 1, tool |-> step.tool_name,
                                            raised |-> Val(e.entry).result.raised])
                      ELSE invoked

\* where the walk stands after an iteration that did not raise
AfterIteration(e) ==
    IF e.stop \/ idx + 1 = Len(plan.steps) THEN "walked" ELSE "walk"

\* execute_plan, lines 40-41: the walk starts on the plan's steps
StartWalk(p, cb) ==
    /\ plan' = p
    /\ confirm' = cb
    /\ idx' = 0
    /\ results' = <<>>
    /\ pc' = IF Len(p.steps) = 0 THEN "walked" ELSE "walk"

----------------------------------------------------------------------------
\* Confidence scorer (Orchestrator._handle_scoring, lines 251-264)

\* a JSON number, in hundredths
Num(n) == [type |-> "number", v |-> n]

\* a JSON value that is not a number (a string such as "high")
Text == [type |-> "string"]

\* score -= 0.3
UnknownPenaltyNone == 0

UnknownPenalty == 30

\* plan.get("confidence_prediction", 0.5)
llm_confidence_or_zero(p) ==
    IF IsNone(p.confidence_prediction) THEN 0 ELSE Val(p.confidence_prediction).v

llm_confidence(p) ==
    IF IsNone(p.confidence_prediction) THEN 50 ELSE Val(p.confidence_prediction).v

\* the confidence_prediction can be added to a float
NumericPrediction(p) ==
    IsNone(p.confidence_prediction) \/ Val(p.confidence_prediction).type = "number"

RECURSIVE Penalised(_, _)
\* the for loop over the steps: 0.3 off for each step whose tool is unknown
Penalised(steps, score) ==
    IF steps = <<>> THEN score
    ELSE Penalised(Tail(steps),
                   IF IsNone(RegistryGet(Head(steps).tool_name))
                   THEN score - UnknownPenalty
                   ELSE score)

\* max(0.0, min(1.0, score))
Unclamped(score) == score

Clamp(score) ==
    LET low == IF score < 100 THEN score ELSE 100
    IN  IF low > 0 THEN low ELSE 0

\* the score before it is clamped: (score + llm_confidence) / 2
RawScore(p) == (Penalised(p.steps, 100) + llm_confidence(p)) \div 2

\* context.confidence_score as _handle_scoring sets it
ConfidenceScore(p) == Clamp(RawScore(p))

\* CONFIDENCE_THRESHOLD = 0.8
CONFIDENCE_THRESHOLD == 80

----------------------------------------------------------------------------
\* The state after construction (Orchestrator.__init__, ExecutionContext())

NoPlan == [confidence_prediction |-> None, steps |-> <<>>]

FreshContext ==
    [diagnostics |-> {}, current_plan |-> None, confidence_score |-> 0,
     results |-> <<>>, error |-> None, summary |-> "", cm_response |-> None,
     cs_assessment |-> None]

\* self.context = ExecutionContext(user_request=user_request) (run, line 95):
\* the context run works on, whatever the context of the call before holds
SameContext(old) == old

NewContext(old) == FreshContext

\* ToolRegistry.__init__: no tool is registered; the number of register calls
\* and the last lookup made on the registry are kept with it
NewRegistry == [_tools |-> <<>>, registrations |-> 0, last |-> None]

\* the /api/execute requests the server gets
Requests == {1, 2}

\* server.py after import: the orchestrator the requests share, built with
\* display=None (its state, context and display sink), and for every request
\* where it stands, the events its WebDisplay has collected, the ledger that
\* run returned to it and the response it sent
NewServer ==
    [state |-> IDLE,
     context |-> [user_request |-> 0, current_plan |-> None, confidence_score |-> None,
                  results |-> <<>>, summary |-> None, error |-> None],
     display |-> 0,
     at |-> [r \in Requests |-> "waiting"],
     events |-> [r \in Requests |-> <<>>],
     returned |-> [r \in Requests |-> None],
     response |-> [r \in Requests |-> None]]

Init ==
    /\ state = IDLE
    /\ context = FreshContext
    /\ safety_mode \in SafetyModes
    /\ display \in Displays
    /\ pc = "idle"
    /\ plan = NoPlan
    /\ confirm = "none"
    /\ idx = 0
    /\ results = <<>>
    /\ looked = <<>>
    /\ asked = <<>>
    /\ invoked = <<>>
    /\ hist = <<>>
    /\ calls = <<>>
    /\ sc = None
    /\ pol = None
    /\ rt = None
    /\ reg = NewRegistry
    /\ srv = NewServer
    /\ earlier = None

----------------------------------------------------------------------------
\* execute_plan called directly (as tests/test_tools.py does), on any plan and
\* with any callback

\* the callbacks a direct caller hands in: none, or one that may answer anything
DirectCallbacks == {"none", "callback"}

ExecutePlan ==
    /\ pc = "idle"
    /\ \E steps \in StepLists(PlanToolNames, OnFailures, MaxSteps), cb \in DirectCallbacks :
          StartWalk([confidence_prediction |-> None, steps |-> steps], cb)
    /\ UNCHANGED <<state, context, safety_mode, display, looked, asked, invoked,
                   hist, calls, sc, pol, rt, reg, srv, earlier>>

DirectIterate ==
    /\ pc = "walk"
    /\ state = IDLE
    /\ \E ans \in Answers, run \in RunOutcomes :
          LET e == Iteration(plan.steps[idx + 1], confirm, ans, run)
          IN  /\ WalkStep(e)
              /\ pc' = IF e.raised THEN "raised" ELSE AfterIteration(e)
    /\ UNCHANGED <<state, context, safety_mode, display, plan, confirm,
                   hist, calls, sc, pol, rt, reg, srv, earlier>>

\* return results (executor.py 105)
DirectReturn ==
    /\ pc = "walked"
    /\ state = IDLE
    /\ pc' = "returned"
    /\ UNCHANGED <<state, context, safety_mode, display, plan, confirm, idx,
                   results, looked, asked, invoked, hist, calls, sc, pol, rt,
                   reg, srv, earlier>>

ExecInit == Init /\ safety_mode = SAFE_MODE /\ display = "none"

ExecNext == ExecutePlan \/ DirectIterate \/ DirectReturn

SpecExec == ExecInit /\ [][ExecNext]_vars

----------------------------------------------------------------------------
\* Reading the walk's logs and ledger

\* positions of the plan whose tool callable was invoked
InvokedAt == {invoked[k].pos : k \in DOMAIN invoked}

\* positions of the plan that were looked up in the registry
LookedAt == {looked[k].pos : k \in DOMAIN looked}

\* positions of the plan for which the confirm callback was called
AskedAt == {asked[k].pos : k \in DOMAIN asked}

\* positions for which the callback gave that answer
Answered(a) == {asked[k].pos : k \in {j \in DOMAIN asked : asked[j].answer = a}}

\* positions whose tool raised when invoked
RaisedAt == {invoked[k].pos : k \in {j \in DOMAIN invoked : invoked[j].raised}}

\* the ledger entries of the step at position i
EntriesOf(ledger, i) ==
    {k \in DOMAIN ledger :
        /\ "step_id" \in DOMAIN ledger[k]
        /\ ledger[k].step_id = plan.steps[i].step_id}

\* the walk is over and execute_plan has returned its ledger
Returned == pc = "returned"

\* the walk is still going on at the given number of attempted steps
WalkOpenAfter(i) == pc = "walk" \/ idx > i

----------------------------------------------------------------------------
\* C1. When the tool invoked for a step raises, the ledger gets one entry
\* for that step with status "failed" carrying the error, and if the step's
\* on_failure is "abort" that entry is the last one and no later step's tool
\* is invoked.
C1_ToolFaultIsFailedAndAborts ==
    \A i \in RaisedAt :
        /\ Cardinality(EntriesOf(results, i)) = 1
        /\ \A k \in EntriesOf(results, i) :
              /\ results[k].status = "failed"
              /\ "error" \in DOMAIN results[k]
              /\ on_failure(plan.steps[i]) = "abort" =>
                    /\ k = Len(results)
                    /\ \A j \in InvokedAt : j <= i

\* C2. A step whose tool name is not in the registry gets exactly one ledger
\* entry, with status "failed", and no callable is invoked for it; when its
\* on_failure is "abort" or absent the walk stops there: no later step is
\* looked up, permission-checked or invoked.
C2_UnresolvedFailsAndAborts ==
    \A i \in LookedAt :
        plan.steps[i].tool_name \notin list_names =>
            /\ Cardinality(EntriesOf(results, i)) = 1
            /\ \A k \in EntriesOf(results, i) : results[k].status = "failed"
            /\ i \notin InvokedAt
            /\ i \notin AskedAt
            /\ plan.steps[i].on_failure \in {None, Some("abort")} =>
                  /\ pc # "walk"
                  /\ \A j \in LookedAt \cup AskedAt \cup InvokedAt : j <= i

\* a returned walk that an unresolved first step with the default policy ended
\* before the second step
C2_Witness ==
    /\ Returned
    /\ Len(plan.steps) = 2
    /\ plan.steps[1].tool_name = GhostTool
    /\ plan.steps[1].on_failure = None
    /\ Len(results) = 1
    /\ results[1].status = "failed"

\* the step at position i was attempted and failed: its tool did not resolve,
\* its permission was denied, or running it raised
FailedAt(i) ==
    \/ i \in RaisedAt
    \/ \E k \in EntriesOf(results, i) : results[k].status \in {"failed", "skipped"}

\* C3. When a step with on_failure "continue" fails (unresolved tool,
\* permission denied or tool fault), the walk proceeds to the next step; for
\* a plan [stepA(continue, fails), stepB(succeeds)] the ledger has exactly
\* two entries in plan order and stepB's entry has status "success".
C3_ContinueProceeds ==
    /\ \A i \in 1..idx :
          (/\ FailedAt(i)
           /\ on_failure(plan.steps[i]) = "continue"
           /\ i < Len(plan.steps)) => WalkOpenAfter(i)
    /\ (/\ Returned
        /\ Len(plan.steps) = 2
        /\ on_failure(plan.steps[1]) = "continue"
        /\ FailedAt(1)
        /\ 2 \in InvokedAt \ RaisedAt
        /\ \A k \in EntriesOf(results, 2) : results[k].result.status # Some("error"))
       => /\ Len(results) = 2
          /\ results[1].step_id = plan.steps[1].step_id
          /\ results[2].step_id = plan.steps[2].step_id
          /\ results[2].status = "success"

\* a returned walk whose first step (continue) raised in its tool and whose
\* second step succeeded
C3_Witness ==
    /\ Returned
    /\ Len(plan.steps) = 2
    /\ plan.steps[1].on_failure = Some("continue")
    /\ 1 \in RaisedAt
    /\ 2 \in InvokedAt \ RaisedAt
    /\ Len(results) = 2
    /\ results[2].status = "success"

\* C4. With a confirm callback, a step's tool is invoked only after the
\* callback returned true for that step; when it returns false the tool is
\* not invoked, the step's entry has status "skipped", and the walk stops if
\* on_failure is "abort" and continues otherwise.
C4_InvokedOnlyWhenConfirmed ==
    confirm # "none" =>
        /\ \A i \in InvokedAt : i \in Answered("yes")
        /\ \A i \in Answered("no") :
              /\ i \notin InvokedAt
              /\ Cardinality(EntriesOf(results, i)) = 1
              /\ \A k \in EntriesOf(results, i) : results[k].status = "skipped"
              /\ on_failure(plan.steps[i]) = "abort" =>
                    /\ pc # "walk"
                    /\ \A j \in LookedAt : j <= i
              /\ (on_failure(plan.steps[i]) # "abort" /\ i < Len(plan.steps)) =>
                    WalkOpenAfter(i)

\* a returned walk in which the callback denied the first step (continue) and
\* approved the second, whose tool was then invoked
C4_Witness ==
    /\ Returned
    /\ confirm = "callback"
    /\ Len(plan.steps) = 2
    /\ 1 \in Answered("no")
    /\ plan.steps[1].on_failure = Some("continue")
    /\ 2 \in Answered("yes")
    /\ 2 \in InvokedAt

----------------------------------------------------------------------------
\* The scoring of _handle_scoring applied to any plan

\* self-reported confidences the prompt asks for (0.0-1.0), one above 1.0, or
\* none
ScoredPredictions == {None} \cup {Some(Num(n)) : n \in {0, 20, 40, 60, 80, 100, 150}}

\* step lists mixing a registered tool and an unregistered one
ScoredStepLists ==
    {[i \in 1..Len(c) |-> StepAt(i, c[i], None)] :
        c \in SeqsUpTo({"get_cpu_usage", GhostTool}, MaxScoredSteps)}

\* the plan without its step at position v
WithoutStep(p, v) ==
    [p EXCEPT !.steps = SubSeq(p.steps, 1, v - 1) \o SubSeq(p.steps, v + 1, Len(p.steps))]

\* positions of the steps whose tool is absent from the registry
UnknownSteps(p) == {i \in DOMAIN p.steps : IsNone(RegistryGet(p.steps[i].tool_name))}

\* _handle_scoring, lines 251-264, on a context holding any plan, the same
\* scoring once more, and that of the plan with one of its unknown-tool steps
\* removed
ScorePlan ==
    /\ pc = "idle"
    /\ \E steps \in ScoredStepLists, pred \in ScoredPredictions :
          LET p == [confidence_prediction |-> pred, steps |-> steps]
          IN  \E v \in UnknownSteps(p) \cup {0} :
                 /\ sc' = Some([plan |-> p, victim |-> v,
                                with |-> ConfidenceScore(p),
                                again |-> ConfidenceScore(p),
                                without |-> IF v = 0 THEN ConfidenceScore(p)
                                            ELSE ConfidenceScore(WithoutStep(p, v))])
                 /\ context' = [context EXCEPT !.current_plan = Some(p),
                                               !.confidence_score = ConfidenceScore(p)]
    /\ pc' = "scored"
    /\ UNCHANGED <<state, safety_mode, display, plan, confirm, idx, results,
                   looked, asked, invoked, hist, calls, pol, rt, reg, srv,
                   earlier>>

ScorerNext == ScorePlan

SpecScorer == ExecInit /\ [][ScorerNext]_vars

\* the scorer was applied to a plan and to the plan without an unknown-tool step
Scored == ~IsNone(sc) /\ Val(sc).victim # 0

\* C10 as stated. For every plan and every step in it that references a tool
\* absent from the registry, the scorer's output for the plan is strictly
\* less than its output for the same plan with that step removed.
C10_StrictPenalty == Scored => Val(sc).with < Val(sc).without

\* C10 as amended. The output for the plan is never greater than the output
\* with the unknown-tool step removed, and it is strictly less unless the
\* clamp hides the penalty (the output for the plan is 1.0, or the output
\* with the step removed is 0.0).
C10_PenaltyUpToClamp ==
    Scored =>
        /\ Val(sc).with <= Val(sc).without
        /\ (Val(sc).with < 100 /\ Val(sc).without > 0) => Val(sc).with < Val(sc).without

\* a plan with an unknown-tool step that scores strictly less than without it
C10_Witness ==
    /\ Scored
    /\ Val(sc).with < Val(sc).without
    /\ Val(sc).with > 0

----------------------------------------------------------------------------
\* Plan generator (llm/planner/planner.py)

\* self-reported confidences of a generated plan: not a number, and numbers
\* inside and outside [0,1]
PlannerPredictions ==
    {Some(Text)} \cup {Some(Num(n)) : n \in {-250, 40, 60, 150}}

\* tool names in a generated plan: a Safe tool, a High-risk one, an invented one
PlannerToolNames == {"get_cpu_usage", "kill_process", GhostTool}

\* on_failure as the prompt asks for it: "abort" or "continue"
PlannerOnFailures == {Some("abort"), Some("continue")}

\* what the language model's JSON may hold after parsing
RawPlans ==
    {[confidence_prediction |-> c, steps |-> st] :
        c \in PlannerPredictions,
        st \in StepLists(PlannerToolNames, PlannerOnFailures, MaxSteps)}

\* generate_plan, lines 96-106: the steps whose tool_name is an available tool
FilterStepsKeepAll(steps, valid_tool_names) == steps

FilterSteps(steps, valid_tool_names) ==
    SelectSeq(steps, LAMBDA step : step.tool_name \in valid_tool_names)

\* generate_plan: None when no JSON came back, else the plan with its
\* hallucinated steps removed (raw is an Optional raw plan)
generate_plan(raw, available_tools) ==
    IF IsNone(raw) THEN None
    ELSE Some([Val(raw) EXCEPT !.steps = FilterSteps(Val(raw).steps, available_tools)])

----------------------------------------------------------------------------
\* Semantic router (core/router.py)

\* SemanticRouter.threshold
RouterThreshold == 47

\* str.lower on the risk strings the registry holds
Lower(risk) ==
    CASE risk \in {"safe", "SAFE"}     -> "safe"
      [] risk \in {"medium", "MEDIUM"} -> "medium"
      [] risk \in {"high", "HIGH"}     -> "high"
      [] OTHER                         -> risk

\* ToolRegistry.list_tools of a registry that holds the named tools: the dict
\* of each tool, with its risk in lower case and its required parameters
list_tools(names) ==
    [n \in names |-> [name |-> n, risk |-> Lower(Tools[n].risk_level),
                      params |-> Tools[n].required]]

\* _index_tools, lines 49-63: the tools put in tool_map, which are the Safe
\* tools without required parameters
IndexToolsAll(names) == names

IndexTools(names) ==
    {n \in names : list_tools(names)[n].risk = "safe" /\ list_tools(names)[n].params = 0}

\* tool_map of a router built on the full registry
Routable == IndexTools(DOMAIN Tools)

\* find_tool, line 92: the comparison with the threshold
RouterMatchesStrictly(score) == score > RouterThreshold

RouterMatches(score) == score >= RouterThreshold

\* find_tool, lines 92-107: the one-step plan of the best hit, or None
find_tool(tool_name, score) ==
    IF RouterMatches(score)
    THEN Some([confidence_prediction |-> Some(Num(score)),
               steps |-> <<[step_id |-> 1, tool_name |-> tool_name,
                            arguments |-> <<>>, on_failure |-> Some("abort")]>>])
    ELSE None

\* find_tool, lines 74-107, of a router whose embedding model is loaded or
\* not and whose tool_map holds the given tools, for a query whose best hit
\* is that tool with that similarity
RouterLookup(backend, index, tool_name, score) ==
    IF backend # "loaded" \/ index = {} THEN None ELSE find_tool(tool_name, score)

\* what the router does for Negotiating: get_router returns None, the router
\* has no embedding model, the lookup returns, or the lookup raises
RouterBehaviours == {"unavailable", "no_backend", "lookup", "raise"}

\* lines 178-180: the plan Negotiating gets from the router, if any
RouterAnswer(router, tool_name, score) ==
    IF router = "lookup" THEN find_tool(tool_name, score) ELSE None

\* lines 176-194: whether an exception of the router leaves the try block
RouterFaultPropagatesOnRaise(router) == router = "raise"

RouterFaultPropagates(router) == FALSE

\* similarities of the best hit: below, at and above the threshold
Similarities == {30, 47, 90}

----------------------------------------------------------------------------
\* Orchestrator (core/orchestrator.py)

\* what calling a callback of the display does: no display is attached, the
\* callback returns, or the callback raises (the observer is a sink whose
\* callbacks always return, the interactive display may raise in any of them)
Shows ==
    CASE display = "none"     -> {"absent"}
      [] display = "observer" -> {"shown"}
      [] OTHER                -> {"shown", "raised"}

\* an entry of the log of collaborator calls: the callee and how the call ended
Call(name, returned) == [name |-> name, returned |-> returned]

\* Orchestrator.transition, line 90, once show_state_transition has returned
transition(new_state) ==
    /\ state' = new_state
    /\ hist' = Append(hist, new_state)

\* run, lines 104-109: a fault raised in a handler is put in context.error and
\* transition(ERROR_RECOVERY) is called, whose display callback may raise in
\* turn, which leaves run
HandlerFaultRetried(ctx) ==
    /\ context' = [ctx EXCEPT !.error = Some("exception")]
    /\ pc' = "run"
    /\ UNCHANGED <<state, hist>>

HandlerFault(ctx) ==
    /\ context' = [ctx EXCEPT !.error = Some("exception")]
    /\ \E moved \in Shows :
          IF moved = "raised"
          THEN /\ pc' = "escaped"
               /\ UNCHANGED <<state, hist>>
          ELSE /\ pc' = "run"
               /\ transition(ERROR_RECOVERY)

\* a handler returned normally: the loop of run goes on
HandlerReturns == pc' = "run"

\* the variables of the walk and of the scoring harness
walk_vars == <<plan, confirm, idx, results, looked, asked, invoked>>

\* _lazy_init, line 94: building a collaborator (MemoryManager makes its
\* storage directory) raises before run has touched the context
LazyInitFault ==
    /\ pc = "idle"
    /\ pc' = "escaped"
    /\ calls' = <<Call("_lazy_init", "raised")>>
    /\ UNCHANGED <<state, context, safety_mode, display, walk_vars, hist,
                   sc, pol, rt, reg, srv, earlier>>

\* run, lines 94-96, called on an orchestrator that is not running: a new
\* context, and the transition to Negotiating from whatever state the
\* previous call left
StartRun ==
    /\ pc \in {"idle", "done", "escaped"}
    /\ context' = NewContext(context)
    /\ plan' = NoPlan
    /\ confirm' = "none"
    /\ idx' = 0
    /\ results' = <<>>
    /\ looked' = <<>>
    /\ asked' = <<>>
    /\ invoked' = <<>>
    /\ calls' = <<>>
    /\ \E moved \in Shows :
          IF moved = "raised"
          THEN /\ pc' = "escaped"
               /\ hist' = <<>>
               /\ UNCHANGED state
          ELSE /\ pc' = "run"
               /\ state' = NEGOTIATING
               /\ hist' = <<NEGOTIATING>>
    /\ UNCHANGED <<safety_mode, display, sc, pol, rt, reg, srv>>

\* run is called
Run == StartRun /\ UNCHANGED earlier

\* _handle_negotiating as a function of what the CM agent, the router and the
\* display do: the context it leaves and the state it moves to, or the fault
\* it raises. What the display raises inside the router's try block is
\* swallowed with the router's own faults.
Negotiating(ctx, cm, router, tool_name, score, shown, moved) ==
    LET replied == IF cm = "reply"
                   THEN [ctx EXCEPT !.cm_response = Some("reply")]
                   ELSE ctx
        fast_plan == RouterAnswer(router, tool_name, score)
        adopted == IF IsNone(fast_plan) THEN replied
                   ELSE [replied EXCEPT !.current_plan = fast_plan]
    IN  IF RouterFaultPropagates(router)
        THEN [context |-> replied, target |-> DIAGNOSING, raised |-> TRUE]
        ELSE IF ~IsNone(fast_plan) /\ shown # "raised"
        THEN [context |-> adopted, target |-> EXECUTING, raised |-> FALSE]
        ELSE [context |-> adopted, target |-> DIAGNOSING, raised |-> moved = "raised"]

\* _handle_negotiating
HandleNegotiating ==
    /\ pc = "run"
    /\ state = NEGOTIATING
    /\ \E cm \in {"reply", "raise"}, router \in RouterBehaviours,
          tool_name \in Routable, score \in Similarities,
          shown \in Shows, moved \in Shows :
          LET out == Negotiating(context, cm, router, tool_name, score, shown, moved)
          IN  IF out.raised
              THEN HandlerFault(out.context)
              ELSE /\ context' = out.context
                   /\ transition(out.target)
                   /\ HandlerReturns
    /\ UNCHANGED <<safety_mode, display, walk_vars, calls, sc, pol, rt, reg, srv,
                   earlier>>

\* the diagnostic tools and their labels, in the order they are run
DiagnosticTools ==
    <<"get_cpu_usage", "get_memory_usage", "get_network_config",
      "check_internet_connection">>

\* the labels of the four diagnostic tools
DiagnosticLabels == {"cpu", "memory", "network", "connectivity"}

\* the label of each diagnostic tool, in the order they are run
DiagnosticLabelOf == <<"cpu", "memory", "network", "connectivity">>

\* what a diagnostic tool does when it is called: it returns its dict, it
\* returns a dict with status "error", or it raises
DiagnosticOutcomes == {"success", "error", "raise"}

\* what the four diagnostic tools do in a run: all succeed, or all raise
DiagnosticCases == {[i \in 1..4 |-> "success"], [i \in 1..4 |-> "raise"]}

\* lines 213-215: whether the result of registry.execute is put in the map
Gathered(result) == result.dict /\ result.status # Some("error")

\* lines 204-219: the diagnostics map gathered from a registry whose
\* diagnostic tools do that
Diagnostics(tools, outcomes) ==
    {DiagnosticLabelOf[i] : i \in
        {j \in 1..4 : Gathered(execute(tools, DiagnosticTools[j], outcomes[j]).result)}}

\* the log of the four calls: what each tool did, or that it is not registered
DiagnosticCalls(tools, outcomes) ==
    [i \in 1..4 |-> Call(DiagnosticTools[i],
                         IF DiagnosticTools[i] \in DOMAIN tools THEN outcomes[i]
                         ELSE "unregistered")]

\* _handle_diagnosing on a registry whose diagnostic tools do that
Diagnosing(tools, outcomes) ==
    /\ calls' = calls \o DiagnosticCalls(tools, outcomes)
    /\ \E moved \in Shows :
          LET ctx == [context EXCEPT !.diagnostics = Diagnostics(tools, outcomes)]
          IN  IF moved # "raised"
              THEN /\ context' = ctx
                   /\ transition(PLANNING)
                   /\ HandlerReturns
              ELSE HandlerFault(ctx)

\* _handle_diagnosing
HandleDiagnosing ==
    /\ pc = "run"
    /\ state = DIAGNOSING
    /\ \E outcomes \in DiagnosticCases : Diagnosing(Tools, outcomes)
    /\ UNCHANGED <<safety_mode, display, walk_vars, sc, pol, rt, reg, srv, earlier>>

\* _handle_planning: the memory context is fetched while the arguments of
\* generate_plan are built, then the plan generator is called
HandlePlanning ==
    /\ pc = "run"
    /\ state = PLANNING
    /\ \E fault \in {"none", "memory", "planner"},
          raw \in {None} \cup {Some(r) : r \in RawPlans}, shown \in Shows :
          LET p == generate_plan(raw, list_names)
              fetched == Call("get_context_for_planner",
                              IF fault = "memory" THEN "raised" ELSE "returned")
              generated == Call("generate_plan",
                                IF fault = "planner" THEN "raised"
                                ELSE IF IsNone(p) THEN "null" ELSE "plan")
          IN  /\ calls' = IF fault = "memory" THEN Append(calls, fetched)
                          ELSE calls \o <<fetched, generated>>
              /\ IF fault # "none"
                 THEN HandlerFault(context)
                 ELSE IF IsNone(p)
                 THEN LET ctx == [context EXCEPT !.error = Some("Failed to generate plan")]
                      IN  IF shown # "raised"
                          THEN /\ context' = ctx
                               /\ transition(ERROR_RECOVERY)
                               /\ HandlerReturns
                          ELSE HandlerFault(ctx)
                 ELSE LET ctx == [context EXCEPT !.current_plan = p]
                      IN  IF shown # "raised"
                          THEN /\ context' = ctx
                               /\ transition(SCORING)
                               /\ HandlerReturns
                          ELSE HandlerFault(ctx)
    /\ UNCHANGED <<safety_mode, display, walk_vars, sc, pol, rt, reg, srv, earlier>>

\* _handle_scoring, line 269: the comparison with the threshold
MeetsThresholdStrictly(score) == score > CONFIDENCE_THRESHOLD

MeetsThreshold(score) == score >= CONFIDENCE_THRESHOLD

\* _handle_scoring
HandleScoring ==
    /\ pc = "run"
    /\ state = SCORING
    /\ LET p == Val(context.current_plan)
       IN  IF ~NumericPrediction(p)
           THEN /\ calls' = Append(calls, Call("score", "raised"))
                /\ HandlerFault(context)
           ELSE LET ctx == [context EXCEPT !.confidence_score = ConfidenceScore(p)]
                IN  /\ calls' = Append(calls, Call("score", "returned"))
                    /\ \E shown \in Shows :
                          IF shown = "raised"
                          THEN HandlerFault(ctx)
                          ELSE /\ context' = ctx
                               /\ IF MeetsThreshold(ctx.confidence_score)
                                  THEN transition(EXECUTING)
                                  ELSE transition(VALIDATING)
                               /\ HandlerReturns
    /\ UNCHANGED <<safety_mode, display, walk_vars, sc, pol, rt, reg, srv, earlier>>

\* the recommendations of a risk assessment (llm/cs_agent.py)
Recommendations == {"APPROVE", "APPROVE_WITH_MODIFICATIONS", "REJECT"}

\* _handle_validating: the CS agent is asked below 0.7; everything raised
\* inside its try block, the display's callbacks included, is swallowed
HandleValidating ==
    /\ pc = "run"
    /\ state = VALIDATING
    /\ \E cs \in Recommendations \cup {"raise"},
          shown \in Shows, rejected \in Shows, moved \in Shows :
          LET consulted == context.confidence_score < 70
              assessed == consulted /\ cs # "raise"
              ctx == IF assessed THEN [context EXCEPT !.cs_assessment = Some(cs)]
                     ELSE context
              refused == assessed /\ shown # "raised" /\ cs = "REJECT"
              refusal == IF refused
                         THEN [ctx EXCEPT !.error = Some("Plan rejected by CS Agent")]
                         ELSE ctx
          IN  /\ calls' = IF consulted
                          THEN Append(calls, Call("evaluate_plan",
                                   IF cs = "raise" THEN "raised" ELSE cs))
                          ELSE calls
              /\ IF refused /\ rejected # "raised"
                 THEN /\ context' = refusal
                      /\ transition(ERROR_RECOVERY)
                      /\ HandlerReturns
                 ELSE IF moved # "raised"
                 THEN /\ context' = refusal
                      /\ transition(EXECUTING)
                      /\ HandlerReturns
                 ELSE HandlerFault(refusal)
    /\ UNCHANGED <<safety_mode, display, walk_vars, sc, pol, rt, reg, srv, earlier>>

\* _handle_executing, lines 323-326: execute_plan is entered with
\* check_permission as its callback
HandleExecuting ==
    /\ pc = "run"
    /\ state = EXECUTING
    /\ StartWalk(Val(context.current_plan), "policy")
    /\ calls' = Append(calls, Call("execute_plan", "entered"))
    /\ UNCHANGED <<state, context, safety_mode, display, looked, asked, invoked,
                   hist, sc, pol, rt, reg, srv, earlier>>

\* what running a tool of a plan does: it returns its dict, or it raises, which
\* the registry turns into a dict with an embedded error
PlannedRunOutcomes == {"success", "raise"}

\* one iteration of execute_plan inside _handle_executing; an exception of
\* the callback leaves the handler
ExecutingIterate ==
    /\ pc = "walk"
    /\ state = EXECUTING
    /\ \E ans \in Answers, run \in PlannedRunOutcomes :
          LET e == Iteration(plan.steps[idx + 1], confirm, ans, run)
          IN  /\ WalkStep(e)
              /\ IF e.raised
                 THEN HandlerFault(context)
                 ELSE /\ pc' = AfterIteration(e)
                      /\ UNCHANGED <<state, context, hist>>
    /\ UNCHANGED <<safety_mode, display, plan, confirm, calls, sc, pol, rt, reg, srv,
                   earlier>>

\* _handle_executing, lines 327-356: the ledger execute_plan returned is put
\* in the context and shown entry by entry
ExecutingDone ==
    /\ pc = "walked"
    /\ state = EXECUTING
    /\ \E shown \in Shows :
          LET ctx == [context EXCEPT !.results = results]
          IN  IF shown # "raised"
              THEN /\ context' = ctx
                   /\ transition(REPORTING)
                   /\ HandlerReturns
              ELSE HandlerFault(ctx)
    /\ UNCHANGED <<safety_mode, display, walk_vars, calls, sc, pol, rt, reg, srv,
                   earlier>>

\* _fallback_summary
fallback_summary(ledger) ==
    IF \A k \in DOMAIN ledger : ledger[k].status = "success"
    THEN "All steps completed successfully."
    ELSE "Some steps succeeded."

\* _handle_reporting
HandleReporting ==
    /\ pc = "run"
    /\ state = REPORTING
    /\ \E cm \in {"summary", "raise"}, shown \in Shows :
          LET ctx == [context EXCEPT !.summary =
                         IF cm = "summary" THEN "Summary by the CM agent."
                         ELSE fallback_summary(context.results)]
          IN  IF shown # "raised"
              THEN /\ context' = ctx
                   /\ transition(LEARNING)
                   /\ HandlerReturns
              ELSE HandlerFault(ctx)
    /\ UNCHANGED <<safety_mode, display, walk_vars, calls, sc, pol, rt, reg, srv,
                   earlier>>

\* _handle_learning
HandleLearning ==
    /\ pc = "run"
    /\ state = LEARNING
    /\ \E stored \in BOOLEAN, moved \in Shows :
          /\ calls' = Append(calls, Call("store_execution_result",
                                 IF stored THEN "returned" ELSE "raised"))
          /\ IF stored /\ moved # "raised"
             THEN /\ transition(IDLE)
                  /\ HandlerReturns
                  /\ UNCHANGED context
             ELSE HandlerFault(context)
    /\ UNCHANGED <<safety_mode, display, walk_vars, sc, pol, rt, reg, srv, earlier>>

\* _handle_error, lines 406-409: the entry appended to the ledger
ErrorEntry(error) == [status |-> "error", error |-> error]

\* _handle_error, called by run (lines 115-116) outside the try block
HandleError ==
    /\ pc = "run"
    /\ state = ERROR_RECOVERY
    /\ context' = [context EXCEPT !.results = Append(@, ErrorEntry(context.error))]
    /\ \E moved \in Shows :
          IF moved # "raised"
          THEN /\ transition(IDLE)
               /\ HandlerReturns
          ELSE /\ pc' = "escaped"
               /\ UNCHANGED <<state, hist>>
    /\ UNCHANGED <<safety_mode, display, walk_vars, calls, sc, pol, rt, reg, srv,
                   earlier>>

\* return self.context.results (line 118)
RunReturn ==
    /\ pc = "run"
    /\ state = IDLE
    /\ pc' = "done"
    /\ UNCHANGED <<state, context, safety_mode, display, walk_vars, hist, calls,
                   sc, pol, rt, reg, srv, earlier>>

Next ==
    \/ LazyInitFault
    \/ Run
    \/ HandleNegotiating
    \/ HandleDiagnosing
    \/ HandlePlanning
    \/ HandleScoring
    \/ HandleValidating
    \/ HandleExecuting
    \/ ExecutingIterate
    \/ ExecutingDone
    \/ HandleReporting
    \/ HandleLearning
    \/ HandleError
    \/ RunReturn
    \/ ScorePlan

Spec == Init /\ [][Next]_vars

----------------------------------------------------------------------------
\* check_permission applied to any registered tool, in every safety mode

\* the risk tiers, lowest first
Tiers == <<"SAFE", "MEDIUM", "HIGH">>

\* the safety modes, strictest first
ModeOrder == <<SAFE_MODE, SEMI_AUTONOMOUS, AUTONOMOUS>>

\* the mode approves the tier whatever the display is and answers
ApprovesUnasked(mode, risk) ==
    \A d \in Displays, a \in Answers : check_permission(mode, risk, d, a) = "yes"

\* the mode hands the decision on the tier to display.ask_permission
Defers(mode, risk) ==
    \A a \in Answers : check_permission(mode, risk, "interactive", a) = a

\* check_permission called for a step on a registered tool under the configured
\* mode and display, and then under every mode and tier
AskPolicy ==
    /\ pc = "idle"
    /\ \E tool_name \in DOMAIN Tools, ans \in Answers :
          LET risk == Tools[tool_name].risk_level
          IN  pol' = Some([tool |-> tool_name, risk |-> risk, ans |-> ans,
                           allowed |-> check_permission(safety_mode, risk, display, ans),
                           auto |-> [m \in SafetyModes |->
                                       [t \in {"SAFE", "MEDIUM", "HIGH"} |->
                                           ApprovesUnasked(m, t)]],
                           defers |-> [m \in SafetyModes |->
                                         [t \in {"SAFE", "MEDIUM", "HIGH"} |->
                                             Defers(m, t)]]])
    /\ pc' = "asked"
    /\ UNCHANGED <<state, context, safety_mode, display, walk_vars, hist, calls,
                   sc, rt, reg, srv, earlier>>

PolicyNext == AskPolicy

SpecPolicy == Init /\ [][PolicyNext]_vars

C6_MonotonicGating ==
    ~IsNone(pol) =>
        LET auto == Val(pol).auto
            defers == Val(pol).defers
        IN  /\ \A t \in 1..3 : auto[AUTONOMOUS][Tiers[t]]
            /\ \A t \in 1..3 : auto[SEMI_AUTONOMOUS][Tiers[t]] <=> Tiers[t] = "SAFE"
            /\ defers[SEMI_AUTONOMOUS]["MEDIUM"] /\ defers[SEMI_AUTONOMOUS]["HIGH"]
            /\ \A t \in 1..3 : ~auto[SAFE_MODE][Tiers[t]] /\ defers[SAFE_MODE][Tiers[t]]
            /\ \A m1, m2 \in 1..3, t \in 1..3 :
                  (m1 <= m2 /\ auto[ModeOrder[m1]][Tiers[t]]) => auto[ModeOrder[m2]][Tiers[t]]
            /\ \A m \in 1..3, t1, t2 \in 1..3 :
                  (t1 <= t2 /\ auto[ModeOrder[m]][Tiers[t2]]) => auto[ModeOrder[m]][Tiers[t1]]
            /\ auto[safety_mode][Val(pol).risk] => Val(pol).allowed = "yes"
            /\ (~auto[safety_mode][Val(pol).risk] /\ HasAskPermission(display)) =>
                  Val(pol).allowed = Val(pol).ans

\* the policy was asked about a Medium-risk tool in SemiAutonomous mode with
\* an interactive display, which denied it
C6_Witness ==
    /\ ~IsNone(pol)
    /\ safety_mode = SEMI_AUTONOMOUS
    /\ display = "interactive"
    /\ Val(pol).risk = "MEDIUM"
    /\ Val(pol).allowed = "no"

\* run has been called and has neither returned nor been left by an exception
InRun == pc \in {"run", "walk", "walked"}

\* C7. Hallucinated tools are never executed: the plan in the context when
\* Scoring starts holds only steps whose tool_name is registered, and no
\* callable is invoked for a tool name absent from the registry.
C7_NoHallucinatedTool ==
    /\ (InRun /\ state = SCORING) =>
          \A i \in DOMAIN Val(context.current_plan).steps :
              Val(context.current_plan).steps[i].tool_name \in list_names
    /\ \A k \in DOMAIN invoked : invoked[k].tool \in list_names
    /\ (InRun /\ state = EXECUTING) =>
          \A i \in DOMAIN Val(context.current_plan).steps :
              Val(context.current_plan).steps[i].tool_name \in list_names

\* Scoring starts on a plan whose first generated step was dropped: only the
\* step generated second is left
C7_Witness ==
    /\ InRun
    /\ state = SCORING
    /\ Len(Val(context.current_plan).steps) = 1
    /\ Val(context.current_plan).steps[1].step_id = 20

\* C9. After Scoring, for every plan (any number of unknown-tool steps, any
\* confidence_prediction), 0.0 <= confidence_score <= 1.0, and the score is
\* in [0,1] in every reachable state of a run, also when Scoring is skipped.
C9_ScoreInRange ==
    /\ context.confidence_score >= 0
    /\ context.confidence_score <= 100

\* Scoring has clamped the score of a plan whose self-reported confidence is 1.5
C9_Witness ==
    /\ InRun
    /\ state = EXECUTING
    /\ ~IsNone(context.current_plan)
    /\ Val(context.current_plan).confidence_prediction = Some(Num(150))
    /\ context.confidence_score = 100

----------------------------------------------------------------------------
\* the scorer has computed a confidence_score in this step
Scores ==
    /\ InRun
    /\ state = SCORING
    /\ Len(calls') = Len(calls) + 1
    /\ calls'[Len(calls')] = Call("score", "returned")

\* C11. Scoring routes on the threshold 0.8 inclusively: a confidence_score
\* at or above the threshold always takes Scoring to Executing, and a
\* confidence_score below it always takes Scoring to Validating, before any
\* plan step is looked up, permission-checked or run.
C11_ThresholdRouting ==
    [][Scores =>
          IF context'.confidence_score >= 80
          THEN state' = EXECUTING
          ELSE /\ state' = VALIDATING
               /\ looked' = <<>> /\ asked' = <<>> /\ invoked' = <<>>
               /\ results' = <<>>]_vars

----------------------------------------------------------------------------
\* the edges of the transition table
TableEdges ==
    {<<IDLE, NEGOTIATING>>,
     <<NEGOTIATING, EXECUTING>>, <<NEGOTIATING, DIAGNOSING>>,
     <<DIAGNOSING, PLANNING>>,
     <<PLANNING, SCORING>>, <<PLANNING, ERROR_RECOVERY>>,
     <<SCORING, EXECUTING>>, <<SCORING, VALIDATING>>,
     <<VALIDATING, EXECUTING>>, <<VALIDATING, ERROR_RECOVERY>>,
     <<EXECUTING, REPORTING>>,
     <<REPORTING, LEARNING>>,
     <<LEARNING, IDLE>>,
     <<ERROR_RECOVERY, IDLE>>}

\* a handler was running (or _handle_error, called by run) and this step ends it
HandlerEnds ==
    /\ InRun
    /\ state # IDLE
    /\ pc' \in {"run", "escaped"}

\* C12. Every state change performed during run is an edge of the transition
\* table or the handler-fault edge into ErrorRecovery; the first transition of
\* run starts from Idle; every handler invocation ends with the state changed.
C12_LegalTransitions ==
    [][/\ state' # state =>
             \/ <<state, state'>> \in TableEdges
             \/ state' = ERROR_RECOVERY /\ ~IsNone(context'.error)
       /\ (~InRun /\ pc' = "run") => state = IDLE
       /\ HandlerEnds => state' # state]_vars

----------------------------------------------------------------------------
\* C13. No exception escapes run: whatever the collaborators do, a fault
\* raised while a handler is running is captured into context.error and the
\* state is forced to ErrorRecovery; after that no pipeline handler runs, the
\* synthetic error entry is appended and run returns the ledger.
C13_NoExceptionEscapes ==
    [][/\ pc' # "escaped"
       /\ (InRun /\ IsNone(context.error) /\ ~IsNone(context'.error)) =>
             state' = ERROR_RECOVERY
       /\ (InRun /\ state = ERROR_RECOVERY) =>
             /\ state' = IDLE
             /\ pc' = "run"
             /\ Len(context'.results) >= 1
             /\ context'.results[Len(context'.results)].status = "error"
       /\ (InRun /\ state = IDLE /\ ~IsNone(context.error)) => pc' = "done"]_vars

----------------------------------------------------------------------------
\* a ledger entry appended by _handle_error, not by the walk of a plan
Synthetic(entry) == "step_id" \notin DOMAIN entry

\* C14. Every run that returns ends in one of two shapes: a non-empty ledger
\* of step results together with a summary, or a ledger that consists of a
\* single synthetic "error" entry with the error message in context.error.
\* No run ends with an empty ledger, and none with step results followed by
\* an error entry.
C14_TwoShapes ==
    pc = "done" =>
        \/ /\ Len(context.results) >= 1
           /\ \A k \in DOMAIN context.results : ~Synthetic(context.results[k])
           /\ context.summary # ""
        \/ /\ Len(context.results) = 1
           /\ Synthetic(context.results[1])
           /\ context.results[1].status = "error"
           /\ ~IsNone(context.error)
           /\ context.results[1].error = context.error

----------------------------------------------------------------------------
\* the calls logged in this run whose callee has that name
CallsOf(name) == {k \in DOMAIN calls : calls[k].name = name}

\* the plan generator was called in this run and returned null
PlannerReturnedNull ==
    \E k \in CallsOf("generate_plan") : calls[k].returned = "null"

\* C15. When the planner returns null, the run never enters Scoring,
\* Validating, Executing, Reporting or Learning, no plan tool is looked up or
\* invoked and no memory record is stored; the run ends through
\* ErrorRecovery and returns a ledger of exactly one entry, with status
\* "error".
C15_NullPlanEndsInError ==
    PlannerReturnedNull =>
        /\ \A k \in DOMAIN hist :
              hist[k] \notin {SCORING, VALIDATING, EXECUTING, REPORTING, LEARNING}
        /\ looked = <<>> /\ asked = <<>> /\ invoked = <<>>
        /\ CallsOf("store_execution_result") = {}
        /\ (InRun /\ state # PLANNING) => state \in {ERROR_RECOVERY, IDLE}
        /\ ~InRun =>
              /\ pc = "done"
              /\ hist = <<NEGOTIATING, DIAGNOSING, PLANNING, ERROR_RECOVERY, IDLE>>
              /\ Len(context.results) = 1
              /\ context.results[1].status = "error"

----------------------------------------------------------------------------
\* a run has returned in which the router gave no match, the planner returned
\* a plan whose steps all name registered tools (none was filtered out), the
\* score reached the threshold, every permission was granted and nothing
\* raised: no tool, no collaborator call, no handler
HappyRun ==
    /\ pc = "done"
    /\ \E k \in CallsOf("generate_plan") : calls[k].returned = "plan"
    /\ \A i \in DOMAIN plan.steps : plan.steps[i].step_id = 10 * i
    /\ context.confidence_score >= CONFIDENCE_THRESHOLD
    /\ \A k \in DOMAIN asked : asked[k].answer = "yes"
    /\ RaisedAt = {}
    /\ \A k \in DOMAIN calls : calls[k].returned # "raised"
    /\ IsNone(context.error)

----------------------------------------------------------------------------
\* Negotiating adopts the plan of a router hit in this step
RouterHit ==
    /\ InRun
    /\ state = NEGOTIATING
    /\ ~IsNone(context'.current_plan)

\* the plan in the context is the router's one-step plan (its step_id is 1)
RouterPlanAdopted ==
    /\ ~IsNone(context.current_plan)
    /\ Len(Val(context.current_plan).steps) = 1
    /\ Val(context.current_plan).steps[1].step_id = 1

\* C17. On a router hit in Negotiating the orchestrator adopts the router's
\* single-step plan and goes straight to Executing: the run never enters
\* Diagnosing, Planning, Scoring or Validating, and neither the diagnostic
\* tools, the planner, the memory-context lookup nor the scorer is called.
C17_ShortcutSkipsPipeline ==
    [][/\ RouterHit =>
             /\ RouterPlanAdopted'
             /\ state' = EXECUTING
       /\ RouterPlanAdopted' =>
             /\ \A k \in DOMAIN hist' :
                   hist'[k] \notin {DIAGNOSING, PLANNING, SCORING, VALIDATING}
             /\ \A k \in DOMAIN calls' :
                   calls'[k].name \notin
                       {DiagnosticTools[i] : i \in 1..4} \cup
                       {"get_context_for_planner", "generate_plan", "score"}]_vars

----------------------------------------------------------------------------
\* The router and the Negotiating handler applied to any query

\* the embedding model of the router: loaded, or missing
Backends == {"loaded", "unavailable"}

\* the registry snapshots a router is built on: any set of registered tools
Snapshots == SUBSET DOMAIN Tools

\* similarities of the best hit around the threshold and at both ends
RouterScores == {0, 46, 47, 48, 100}

\* SemanticRouter built on a snapshot of the registry, then find_tool called
\* twice with the same query
AskRouter ==
    /\ pc = "idle"
    /\ \E backend \in Backends, snapshot \in Snapshots, score \in RouterScores :
          LET index == IF backend = "loaded" THEN IndexTools(snapshot) ELSE {}
          IN  \E top \in IF index = {} THEN {"nothing"} ELSE index :
                 rt' = Some([kind |-> "lookup", backend |-> backend,
                             snapshot |-> snapshot, index |-> index,
                             top |-> top, score |-> score,
                             plan |-> RouterLookup(backend, index, top, score),
                             again |-> RouterLookup(backend, index, top, score)])
    /\ pc' = "routed"
    /\ UNCHANGED <<state, context, safety_mode, display, walk_vars, hist, calls,
                   sc, pol, reg, srv, earlier>>

\* _handle_negotiating called on a fresh context, and what it would have done
\* had the router looked the query up and found every similarity below the
\* threshold, the CM agent and the display doing the same
NegotiateOnce ==
    /\ pc = "idle"
    /\ \E cm \in {"reply", "raise"}, router \in RouterBehaviours,
          tool_name \in Routable, score \in Similarities,
          shown \in Shows, moved \in Shows :
          LET out == Negotiating(FreshContext, cm, router, tool_name, score, shown, moved)
          IN  /\ rt' = Some([kind |-> "negotiate", router |-> router,
                             moved |-> moved, out |-> out,
                             nomatch |-> {Negotiating(FreshContext, cm, "lookup",
                                                      tool_name, s, shown, moved) :
                                             s \in {t \in RouterScores : ~RouterMatches(t)}}])
              /\ context' = IF out.raised
                            THEN [out.context EXCEPT !.error = Some("exception")]
                            ELSE out.context
              /\ state' = IF out.raised THEN state ELSE out.target
              /\ hist' = IF out.raised THEN hist ELSE Append(hist, out.target)
    /\ pc' = "negotiated"
    /\ UNCHANGED <<safety_mode, display, walk_vars, calls, sc, pol, reg, srv,
                   earlier>>

RouterNext == AskRouter \/ NegotiateOnce

SpecRouter == Init /\ [][RouterNext]_vars

\* find_tool was called on a router
Routed == ~IsNone(rt) /\ Val(rt).kind = "lookup"

C19_ShortcutOnlySafeTools ==
    (Routed /\ ~IsNone(Val(rt).plan)) =>
        LET steps == Val(Val(rt).plan).steps
        IN  /\ Len(steps) = 1
            /\ steps[1].arguments = <<>>
            /\ steps[1].tool_name \in Val(rt).snapshot
            /\ Tools[steps[1].tool_name].risk_level = "SAFE"
            /\ Tools[steps[1].tool_name].required = 0
            /\ \A n \in Val(rt).snapshot :
                  (Tools[n].risk_level \in {"MEDIUM", "HIGH"} \/ Tools[n].required > 0)
                     => n \notin Val(rt).index

\* a router built on a registry that also holds a High-risk tool, a
\* Medium-risk tool and a Safe tool with a required parameter returned a plan
C19_Witness ==
    /\ Routed
    /\ {"kill_process", "flush_dns", "get_file_info"} \subseteq Val(rt).snapshot
    /\ ~IsNone(Val(rt).plan)
    /\ Val(Val(rt).plan).steps[1].tool_name = "get_cpu_usage"

\* _handle_negotiating was called with a router that is not there, has no
\* embedding model, or raised in the lookup
RouterFailed ==
    /\ ~IsNone(rt)
    /\ Val(rt).kind = "negotiate"
    /\ Val(rt).router \in {"unavailable", "no_backend", "raise"}

\* C20. If the embedding backend is unavailable, the router cannot be
\* constructed, or the lookup raises, Negotiating behaves identically to a
\* router "no match": it leaves the same context and takes the same
\* transition, which is the one to Diagnosing, the router's fault is not
\* recorded in context.error, and no plan is adopted, so the rest of the
\* pipeline starts from the state a "no match" leaves.
C20_RouterFaultIsNoMatch ==
    RouterFailed =>
        /\ Val(rt).nomatch = {Val(rt).out}
        /\ IsNone(context.current_plan)
        /\ ~Val(rt).out.raised =>
              /\ state = DIAGNOSING
              /\ hist = <<DIAGNOSING>>
              /\ IsNone(context.error)
        /\ Val(rt).out.raised => Val(rt).moved = "raised"

\* the router raised in the lookup and Negotiating went on to Diagnosing
C20_Witness ==
    /\ RouterFailed
    /\ Val(rt).router = "raise"
    /\ state = DIAGNOSING
    /\ IsNone(context.error)

----------------------------------------------------------------------------
\* the Validating handler runs in this step
Validates ==
    /\ pc = "run"
    /\ state = VALIDATING

\* the risk assessment asked for in this step recommends REJECT
RejectsNow ==
    /\ Len(calls') = Len(calls) + 1
    /\ calls'[Len(calls')] = Call("evaluate_plan", "REJECT")

\* the risk assessment of this run recommended REJECT
PlanRejected == \E k \in CallsOf("evaluate_plan") : calls[k].returned = "REJECT"

\* C21. In Validating an explicit REJECT of the risk assessment is terminal:
\* the run goes to ErrorRecovery, no plan step is ever looked up or run and
\* the returned ledger is the single error entry. In every other case
\* (approve, approve with modifications, no assessment asked for, or the
\* assessment raising) Validating proceeds to Executing.
C21_RejectIsTerminal ==
    [][/\ Validates =>
             IF RejectsNow
             THEN state' = ERROR_RECOVERY /\ ~IsNone(context'.error)
             ELSE state' = EXECUTING
       /\ PlanRejected' =>
             /\ looked' = <<>> /\ asked' = <<>> /\ invoked' = <<>>
             /\ pc' = "done" =>
                   context'.results = <<ErrorEntry(context'.error)>>]_vars

----------------------------------------------------------------------------
\* in this run no collaborator other than the display has failed: no call
\* raised, the planner returned a plan, no assessment rejected it and
\* ask_permission answered every question
OnlyTheDisplayCanHaveFailed ==
    /\ \A k \in DOMAIN calls : calls[k].returned \notin {"raised", "null", "REJECT"}
    /\ \A k \in DOMAIN asked : asked[k].answer # "raise"

\* C22. The display is purely observational: whether it is absent, lacks
\* callbacks or raises inside a callback, the run does what it does with a
\* well-behaved display. So when nothing but the display can have failed, no
\* exception leaves run, context.error stays unset, ErrorRecovery is never
\* entered, a plan adopted from the router goes straight to Executing, and
\* the returned ledger is the ledger of the plan's walk.
C22_DisplayIsObservational ==
    OnlyTheDisplayCanHaveFailed =>
        /\ pc # "escaped"
        /\ IsNone(context.error)
        /\ \A k \in DOMAIN hist : hist[k] # ERROR_RECOVERY
        /\ RouterPlanAdopted =>
              \A k \in DOMAIN hist :
                  hist[k] \notin {DIAGNOSING, PLANNING, SCORING, VALIDATING}
        /\ pc = "done" => context.results = results

----------------------------------------------------------------------------
\* A ToolRegistry that tool modules register into, and lookups made on it

\* function names the decorator is applied to, and a name never registered
RegisteredNames == {"get_network_config", "flush_dns"}

LookupNames == RegisteredNames \cup {GhostTool}

\* the modules that define a function of a given name
Callables == {"system_tools", "network_tools"}

\* RiskLevel
RiskLevels == {"SAFE", "MEDIUM", "HIGH"}

\* ToolMeta as the decorator builds it (lines 70-77): the callable, the risk
\* tier and the number of required parameters
ToolMeta(name, func, risk_level, required) ==
    [name |-> name, func |-> func, risk_level |-> risk_level, required |-> required]

\* self._tools[tool_name] = meta (line 78)
Store(tools, meta) ==
    [n \in DOMAIN tools \cup {meta.name} |-> IF n = meta.name THEN meta ELSE tools[n]]

\* @registry.register(risk_level=...) applied to a function
Register ==
    /\ pc \in {"idle", "registry"}
    /\ reg.registrations < MaxRegistrations
    /\ \E name \in RegisteredNames, func \in Callables, risk_level \in RiskLevels,
          required \in {0, 1} :
          reg' = [_tools |-> Store(reg._tools, ToolMeta(name, func, risk_level, required)),
                  registrations |-> reg.registrations + 1,
                  last |-> None]
    /\ pc' = "registry"
    /\ UNCHANGED <<state, context, safety_mode, display, walk_vars, hist, calls,
                   sc, pol, rt, srv, earlier>>

\* registry.get(name)
Get ==
    /\ pc \in {"idle", "registry"}
    /\ \E name \in LookupNames :
          reg' = [reg EXCEPT !.last = Some([op |-> "get", name |-> name,
                                            out |-> get(reg._tools, name)])]
    /\ pc' = "registry"
    /\ UNCHANGED <<state, context, safety_mode, display, walk_vars, hist, calls,
                   sc, pol, rt, srv, earlier>>

\* registry.execute(name)
Execute ==
    /\ pc \in {"idle", "registry"}
    /\ \E name \in LookupNames, outcome \in CallOutcomes :
          reg' = [reg EXCEPT !.last = Some([op |-> "execute", name |-> name,
                                            out |-> execute(reg._tools, name, outcome)])]
    /\ pc' = "registry"
    /\ UNCHANGED <<state, context, safety_mode, display, walk_vars, hist, calls,
                   sc, pol, rt, srv, earlier>>

RegistryNext == Register \/ Get \/ Execute

SpecRegistry == ExecInit /\ [][RegistryNext]_vars

\* a lookup of that kind was made for a name the registry does not hold
Missed(op) ==
    /\ ~IsNone(reg.last)
    /\ Val(reg.last).op = op
    /\ Val(reg.last).name \notin DOMAIN reg._tools

\* C23. Registry lookups never throw: get(name) for an unregistered name
\* returns None without raising, and execute(name) for an unregistered name
\* returns a result with status "error" without raising and without invoking
\* any callable.
C23_LookupsNeverThrow ==
    /\ Missed("get") =>
          /\ ~Val(reg.last).out.raised
          /\ IsNone(Val(reg.last).out.value)
    /\ Missed("execute") =>
          /\ ~Val(reg.last).out.raised
          /\ Val(reg.last).out.result.dict
          /\ Val(reg.last).out.result.status = Some("error")
          /\ ~Val(reg.last).out.invoked

\* get was called for a name that a registry holding two tools does not hold
C23_Witness ==
    /\ Missed("get")
    /\ Val(reg.last).name = GhostTool
    /\ DOMAIN reg._tools = RegisteredNames

\* C24. Registration is append-only and descriptors are immutable: a register
\* call never removes an entry and never replaces the descriptor (callable,
\* risk tier, parameters) a name was first registered with.
C24_AppendOnly ==
    [][\A n \in DOMAIN reg._tools :
          /\ n \in DOMAIN reg'._tools
          /\ reg'._tools[n] = reg._tools[n]
          /\ get(reg'._tools, n).value = get(reg._tools, n).value]_vars

----------------------------------------------------------------------------
\* _handle_diagnosing on any registry and for any behaviour of the four tools

\* run has reached Diagnosing on a fresh context
DiagInit ==
    /\ state = DIAGNOSING
    /\ context = FreshContext
    /\ safety_mode = SAFE_MODE
    /\ display \in Displays
    /\ pc = "run"
    /\ plan = NoPlan
    /\ confirm = "none"
    /\ idx = 0
    /\ results = <<>>
    /\ looked = <<>>
    /\ asked = <<>>
    /\ invoked = <<>>
    /\ hist = <<NEGOTIATING, DIAGNOSING>>
    /\ calls = <<>>
    /\ sc = None
    /\ pol = None
    /\ rt = None
    /\ reg = NewRegistry
    /\ srv = NewServer
    /\ earlier = None

\* the registries the handler may find: any of the diagnostic tools missing
DiagnosticRegistries ==
    {[n \in names |-> Tools[n]] : names \in SUBSET {DiagnosticTools[i] : i \in 1..4}}

\* _handle_diagnosing, called by run
DiagnoseOnce ==
    /\ pc = "run"
    /\ state = DIAGNOSING
    /\ \E tools \in DiagnosticRegistries, outcomes \in [1..4 -> DiagnosticOutcomes] :
          Diagnosing(tools, outcomes)
    /\ UNCHANGED <<safety_mode, display, walk_vars, sc, pol, rt, reg, srv, earlier>>

DiagNext == DiagnoseOnce

SpecDiag == DiagInit /\ [][DiagNext]_vars

\* the Diagnosing handler runs in this step
Diagnoses ==
    /\ pc = "run"
    /\ state = DIAGNOSING

\* the labels of the diagnostic tools that succeeded in this step
SucceededNow ==
    {DiagnosticLabelOf[i] : i \in
        {j \in 1..4 : calls'[Len(calls) + j] = Call(DiagnosticTools[j], "success")}}

\* C25. Diagnosing never fails the run: for any subset of the four
\* diagnostic tools that raise, are unregistered or return an error status,
\* the handler transitions to Planning without setting context.error, and
\* the diagnostics map holds exactly the labels of the tools that succeeded.
C25_DiagnosingNeverFails ==
    [][Diagnoses =>
          /\ state' = PLANNING
          /\ pc' = "run"
          /\ IsNone(context'.error)
          /\ context'.diagnostics = SucceededNow]_vars

----------------------------------------------------------------------------
\* the Learning handler runs in this step
Learns ==
    /\ pc = "run"
    /\ state = LEARNING

\* the run has entered Learning
Learned == \E k \in DOMAIN hist : hist[k] = LEARNING

\* C26. Learning never fails the run: whatever the memory does when asked to
\* store the record, raising included, the run ends in Idle without entering
\* ErrorRecovery, context.error stays unset, and the returned ledger is
\* exactly the ledger produced by Executing.
C26_LearningNeverFails ==
    [][/\ Learns =>
             /\ state' = IDLE
             /\ pc' = "run"
             /\ IsNone(context'.error)
             /\ context'.results = results
       /\ Learned' =>
             /\ \A k \in DOMAIN hist' : hist'[k] # ERROR_RECOVERY
             /\ pc' = "done" => context'.results = results']_vars

----------------------------------------------------------------------------
\* The HTTP server (server.py): /api/execute requests on the one orchestrator
\* that _get_orchestrator hands to all of them. Each request attaches its own
\* WebDisplay and calls run in a worker thread (asyncio.to_thread), so the
\* runs of two requests interleave; a handler is taken as one step. The
\* collaborators are well behaved: the router has no match, the planner
\* returns a plan for the request text in the context, its score reaches
\* the threshold and its one step succeeds.

\* Orchestrator.transition on the shared orchestrator: the attached display
\* is shown the move, then the state is assigned
Moved(s, new_state) ==
    [s EXCEPT !.events = IF s.display = 0 THEN @
                         ELSE [@ EXCEPT ![s.display] = Append(@, <<s.state, new_state>>)],
              !.state = new_state]

\* run, lines 104-109, on the shared orchestrator: a handler raised
Faulted(s) ==
    Moved([s EXCEPT !.context.error = Some("exception")], ERROR_RECOVERY)

\* the variables the server does not touch
local_vars ==
    <<state, context, safety_mode, display, pc, walk_vars, hist, calls, sc, pol,
      rt, reg, earlier>>

\* the worker thread of the request is in the loop of run, which calls the
\* handler of the current state
InLoop(r, s) ==
    /\ srv.at[r] = "loop"
    /\ srv.state = s

\* server.py 159-160: orch._display = web_display
Attach ==
    /\ \E r \in Requests :
          /\ srv.at[r] = "waiting"
          /\ srv' = [srv EXCEPT !.display = r, !.at[r] = "attached"]
    /\ UNCHANGED local_vars

\* run, line 95, in the worker thread of the request: a new context
ThreadContext ==
    /\ \E r \in Requests :
          /\ srv.at[r] = "attached"
          /\ srv' = [srv EXCEPT !.at[r] = "called",
                                !.context = [NewServer.context EXCEPT !.user_request = r]]
    /\ UNCHANGED local_vars

\* run, line 96: transition(NEGOTIATING)
ThreadRun ==
    /\ \E r \in Requests :
          /\ srv.at[r] = "called"
          /\ srv' = Moved([srv EXCEPT !.at[r] = "loop"], NEGOTIATING)
    /\ UNCHANGED local_vars

ThreadNegotiating ==
    /\ \E r \in Requests :
          /\ InLoop(r, NEGOTIATING)
          /\ srv' = Moved(srv, DIAGNOSING)
    /\ UNCHANGED local_vars

ThreadDiagnosing ==
    /\ \E r \in Requests :
          /\ InLoop(r, DIAGNOSING)
          /\ srv' = Moved(srv, PLANNING)
    /\ UNCHANGED local_vars

\* the plan is generated for context.user_request
ThreadPlanning ==
    /\ \E r \in Requests :
          /\ InLoop(r, PLANNING)
          /\ srv' = Moved([srv EXCEPT !.context.current_plan =
                                          Some(srv.context.user_request)],
                          SCORING)
    /\ UNCHANGED local_vars

\* plan.get raises on a context without a plan (line 255)
ThreadScoring ==
    /\ \E r \in Requests :
          /\ InLoop(r, SCORING)
          /\ srv' = IF IsNone(srv.context.current_plan) THEN Faulted(srv)
                    ELSE Moved([srv EXCEPT !.context.confidence_score =
                                               srv.context.current_plan],
                               EXECUTING)
    /\ UNCHANGED local_vars

\* execute_plan raises on a context without a plan (executor.py 40); else the
\* ledger of the plan in the context
ThreadExecuting ==
    /\ \E r \in Requests :
          /\ InLoop(r, EXECUTING)
          /\ srv' = IF IsNone(srv.context.current_plan) THEN Faulted(srv)
                    ELSE Moved([srv EXCEPT !.context.results =
                                               <<[status |-> "success",
                                                  plan |-> Val(srv.context.current_plan)]>>],
                               REPORTING)
    /\ UNCHANGED local_vars

\* the summary is made of context.results for context.user_request
ThreadReporting ==
    /\ \E r \in Requests :
          /\ InLoop(r, REPORTING)
          /\ srv' = Moved([srv EXCEPT !.context.summary =
                                          Some(srv.context.user_request)],
                          LEARNING)
    /\ UNCHANGED local_vars

ThreadLearning ==
    /\ \E r \in Requests :
          /\ InLoop(r, LEARNING)
          /\ srv' = Moved(srv, IDLE)
    /\ UNCHANGED local_vars

\* run, lines 115-116: the loop was left in ErrorRecovery
ThreadError ==
    /\ \E r \in Requests :
          /\ InLoop(r, ERROR_RECOVERY)
          /\ srv' = Moved([srv EXCEPT !.context.results =
                                          Append(@, [status |-> "error", plan |-> 0])],
                          IDLE)
    /\ UNCHANGED local_vars

\* run, line 118: return self.context.results
ThreadReturn ==
    /\ \E r \in Requests :
          /\ InLoop(r, IDLE)
          /\ srv' = [srv EXCEPT !.at[r] = "returned",
                                !.returned[r] = Some(srv.context.results)]
    /\ UNCHANGED local_vars

\* server.py 170-179: the response is built from the returned ledger, the
\* request's events and the orchestrator's context
Respond ==
    /\ \E r \in Requests :
          /\ srv.at[r] = "returned"
          /\ srv' = [srv EXCEPT
                        !.at[r] = "responded",
                        !.response[r] =
                            Some([results |-> Val(srv.returned[r]),
                                  events |-> srv.events[r],
                                  summary |-> srv.context.summary,
                                  confidence |-> srv.context.confidence_score])]
    /\ UNCHANGED local_vars

ServerNext ==
    \/ Attach
    \/ ThreadContext
    \/ ThreadRun
    \/ ThreadNegotiating
    \/ ThreadDiagnosing
    \/ ThreadPlanning
    \/ ThreadScoring
    \/ ThreadExecuting
    \/ ThreadReporting
    \/ ThreadLearning
    \/ ThreadError
    \/ ThreadReturn
    \/ Respond

SpecServer == ExecInit /\ [][ServerNext]_vars

\* the state sequence of a run of the modelled request, as its display sees it
OwnTransitions ==
    <<<<IDLE, NEGOTIATING>>, <<NEGOTIATING, DIAGNOSING>>, <<DIAGNOSING, PLANNING>>,
      <<PLANNING, SCORING>>, <<SCORING, EXECUTING>>, <<EXECUTING, REPORTING>>,
      <<REPORTING, LEARNING>>, <<LEARNING, IDLE>>>>

\* C27. The ExecutionContext is exclusively owned by one in-flight run: a
\* second /api/execute request arriving while a first run is in progress
\* never replaces the context, state or display sink the first run is using,
\* so each response reports the state sequence, ledger, summary and
\* confidence of its own request only.
C27_ContextOwnedByOneRun ==
    \A r \in Requests :
        /\ srv.at[r] \in {"attached", "called", "loop", "returned"} => srv.display = r
        /\ srv.at[r] \in {"called", "loop", "returned"} => srv.context.user_request = r
        /\ srv.at[r] = "responded" =>
              /\ Val(srv.response[r]).results = <<[status |-> "success", plan |-> r]>>
              /\ Val(srv.response[r]).events = OwnTransitions
              /\ Val(srv.response[r]).summary = Some(r)
              /\ Val(srv.response[r]).confidence = Some(r)

----------------------------------------------------------------------------
\* positions of the plan whose tool was invoked and returned normally
ReturnedAt == InvokedAt \ RaisedAt

\* C28 as stated. On normal return of a tool the step's ledger entry has
\* status "success" and carries the tool's result; a status field embedded in
\* the result does not change the entry's status or the control flow.
C28_NormalReturnIsSuccess ==
    \A i \in ReturnedAt :
        /\ Cardinality(EntriesOf(results, i)) = 1
        /\ \A k \in EntriesOf(results, i) :
              /\ results[k].status = "success"
              /\ "result" \in DOMAIN results[k]
        /\ i < Len(plan.steps) => WalkOpenAfter(i)

\* C28 as amended. On normal return of a tool the step's one ledger entry
\* carries the tool's result, and its status is the status field embedded in
\* the result when the result is a dict that has one ("error" for an embedded
\* error) and "success" otherwise; whatever that status and whatever
\* on_failure says, the walk goes on to the next step.
C28_EmbeddedStatusIsSurfaced ==
    \A i \in ReturnedAt :
        /\ Cardinality(EntriesOf(results, i)) = 1
        /\ \A k \in EntriesOf(results, i) :
              /\ "result" \in DOMAIN results[k]
              /\ ~results[k].result.raised
              /\ (results[k].result.dict /\ results[k].result.status = Some("error"))
                    => results[k].status = "error"
              /\ (~results[k].result.dict
                    \/ results[k].result.status \in {None, Some("success")})
                    => results[k].status = "success"
        /\ i < Len(plan.steps) => WalkOpenAfter(i)

\* a returned walk whose first step (on_failure "abort") returned a dict with
\* an embedded status "error": its entry says "error" and the second step ran
C28_Witness ==
    /\ Returned
    /\ Len(plan.steps) = 2
    /\ on_failure(plan.steps[1]) = "abort"
    /\ 1 \in ReturnedAt
    /\ results[1].status = "error"
    /\ results[1].result.status = Some("error")
    /\ 2 \in InvokedAt
    /\ Len(results) = 2

----------------------------------------------------------------------------
\* the scorer was applied to a plan
ScoredPlan == ~IsNone(sc)

\* C29. The confidence score is a deterministic function of the plan and the
\* registry only: for a plan with u steps whose tool name is absent from the
\* registry and self-reported confidence p (0.5 when confidence_prediction is
\* absent), the score equals clamp((1.0 - 0.3*u + p) / 2, 0, 1), and scoring
\* the same plan against the same registry twice gives the same score.
C29_ScoreFormula ==
    ScoredPlan =>
        LET steps == Val(sc).plan.steps
            prediction == Val(sc).plan.confidence_prediction
            u == Cardinality({i \in DOMAIN steps : steps[i].tool_name \notin list_names})
            p == IF prediction = None THEN 50 ELSE Val(prediction).v
            raw == (100 - 30 * u + p) \div 2
        IN  /\ Val(sc).with = IF raw < 0 THEN 0 ELSE IF raw > 100 THEN 100 ELSE raw
            /\ Val(sc).again = Val(sc).with
            /\ context.confidence_score = Val(sc).with

\* a plan without confidence_prediction and with one unknown tool among its
\* two steps scored (1.0 - 0.3 + 0.5) / 2 = 0.6
C29_Witness ==
    /\ ScoredPlan
    /\ Val(sc).plan.confidence_prediction = None
    /\ Len(Val(sc).plan.steps) = 2
    /\ Cardinality(UnknownSteps(Val(sc).plan)) = 1
    /\ Val(sc).with = 60

----------------------------------------------------------------------------
\* the run has entered ErrorRecovery
EnteredErrorRecovery == \E k \in DOMAIN hist : hist[k] = ERROR_RECOVERY

\* positions of the synthetic entries of the ledger in the context
SyntheticAt == {k \in DOMAIN context.results : Synthetic(context.results[k])}

\* C30. On every run that enters ErrorRecovery exactly one synthetic entry
\* carrying context.error is appended to the ledger, it is the last entry,
\* and the orchestrator then returns to Idle; on runs that never enter
\* ErrorRecovery no such entry is appended. So the state is Idle whenever
\* run returns, on success and error paths alike, and a run that has entered
\* ErrorRecovery does return.
C30_ErrorRecoveryAppendsOnce ==
    /\ (InRun /\ ~EnteredErrorRecovery) => SyntheticAt = {}
    /\ (InRun /\ state = IDLE /\ EnteredErrorRecovery) =>
          /\ SyntheticAt = {Len(context.results)}
          /\ context.results[Len(context.results)] = ErrorEntry(context.error)
    /\ pc = "done" =>
          /\ state = IDLE
          /\ SyntheticAt = IF EnteredErrorRecovery THEN {Len(context.results)} ELSE {}
    /\ EnteredErrorRecovery => pc # "escaped"

----------------------------------------------------------------------------
\* The State enumeration and the handler table

\* class State (core/config.py 10-19): the values of its members
State ==
    {IDLE, NEGOTIATING, DIAGNOSING, PLANNING, SCORING, VALIDATING, EXECUTING,
     LEARNING, ERROR_RECOVERY}

\* _register_default_handlers (lines 49-60): the handler each key of the table
\* is given; the table is written with a member REPORTING
Handlers ==
    [s \in {IDLE, NEGOTIATING, DIAGNOSING, PLANNING, SCORING, VALIDATING,
            EXECUTING, REPORTING, LEARNING, ERROR_RECOVERY} |->
        CASE s = IDLE           -> "_handle_idle"
          [] s = NEGOTIATING    -> "_handle_negotiating"
          [] s = DIAGNOSING     -> "_handle_diagnosing"
          [] s = PLANNING       -> "_handle_planning"
          [] s = SCORING        -> "_handle_scoring"
          [] s = VALIDATING     -> "_handle_validating"
          [] s = EXECUTING      -> "_handle_executing"
          [] s = REPORTING      -> "_handle_reporting"
          [] s = LEARNING       -> "_handle_learning"
          [] s = ERROR_RECOVERY -> "_handle_error"]

\* C31. The State enumeration is exactly the ten states Idle, Negotiating,
\* Diagnosing, Planning, Scoring, Validating, Executing, Reporting, Learning,
\* ErrorRecovery, the handler table maps each of them to exactly one handler,
\* and the run loop never meets a current state that has no handler.
C31_TenStatesAllHandled ==
    /\ State = {"idle", "negotiating", "diagnosing", "planning", "scoring",
                "validating", "executing", "reporting", "learning",
                "error_recovery"}
    /\ DOMAIN Handlers = State
    /\ state \in State
    /\ InRun => state \in DOMAIN Handlers

----------------------------------------------------------------------------
\* C32. At most one execution per step: within one run each FSM state is
\* entered at most once, Executing runs the executor at most once, and the
\* executor looks up and invokes the tool of each plan step at most once, so
\* no step is retried or executed twice in a run.
C32_AtMostOnePerStep ==
    /\ \A a, b \in DOMAIN hist : hist[a] = hist[b] => a = b
    /\ Cardinality(CallsOf("execute_plan")) <= 1
    /\ \A a, b \in DOMAIN invoked : invoked[a].pos = invoked[b].pos => a = b
    /\ \A a, b \in DOMAIN looked : looked[a].pos = looked[b].pos => a = b
    /\ \A a, b \in DOMAIN asked : asked[a].pos = asked[b].pos => a = b
    /\ \A i \in DOMAIN plan.steps : Cardinality(EntriesOf(context.results, i)) <= 1

\* a run of the full pipeline has returned after the executor, called once,
\* invoked both steps of a plan that names the same tool twice
C32_Witness ==
    /\ pc = "done"
    /\ hist = <<NEGOTIATING, DIAGNOSING, PLANNING, SCORING, EXECUTING,
                REPORTING, LEARNING, IDLE>>
    /\ Cardinality(CallsOf("execute_plan")) = 1
    /\ Len(plan.steps) = 2
    /\ plan.steps[1].tool_name = plan.steps[2].tool_name
    /\ Len(invoked) = 2
    /\ Len(context.results) = 2

----------------------------------------------------------------------------
\* Runs under the scheduling of run: the loop of lines 99-116 is sequential,
\* so a run that has been called keeps taking its next step; calling run is
\* up to the caller

\* the steps run takes once it has been called
InsideRun ==
    \/ HandleNegotiating
    \/ HandleDiagnosing
    \/ HandlePlanning
    \/ HandleScoring
    \/ HandleValidating
    \/ HandleExecuting
    \/ ExecutingIterate
    \/ ExecutingDone
    \/ HandleReporting
    \/ HandleLearning
    \/ HandleError
    \/ RunReturn

LiveInit == Init /\ safety_mode = SEMI_AUTONOMOUS

LiveNext == LazyInitFault \/ Run \/ InsideRun

SpecLive == LiveInit /\ [][LiveNext]_vars /\ WF_vars(InsideRun)

\* C33. Every run eventually returns with the state at Idle: the FSM never
\* hangs or cycles, and when a collaborator (router, language models,
\* permission UI) is unavailable the run degrades to an error or a skipped
\* step and still returns.
C33_RunReturnsInIdle == InRun ~> (pc = "done" /\ state = IDLE)

----------------------------------------------------------------------------
\* run called again and again on one orchestrator

\* what a call of run left behind when the next call is made: the context,
\* reduced to its error and to whether its ledger holds an error entry
LeftBehind(ctx) ==
    [error |-> ctx.error,
     error_entry |-> \E k \in DOMAIN ctx.results : Synthetic(ctx.results[k])]

\* run is called, by a caller who remembers what the call before left
RunAfter ==
    /\ StartRun
    /\ earlier' = IF pc = "idle" THEN None ELSE Some(LeftBehind(context))

RunsInit == Init /\ safety_mode = AUTONOMOUS /\ display = "none"

RunsNext == RunAfter \/ InsideRun

SpecRuns == RunsInit /\ [][RunsNext]_vars

\* nothing has failed in the run so far: no call raised, the planner
\* returned a plan and no assessment rejected it
NothingFailed ==
    /\ \A k \in DOMAIN calls : calls[k].returned \notin {"raised", "null", "REJECT"}
    /\ \A k \in DOMAIN asked : asked[k].answer # "raise"

\* C34. run starts from a fresh ExecutionContext: over any sequence of run
\* calls on one orchestrator, a call of run first replaces the context by a
\* new one with an empty ledger, and what the context then holds comes from
\* this run: a plan only once the router or the planner gave one, a score
\* only after Scoring, an assessment only if it was asked for in this run, a
\* summary only after Reporting, ledger entries only of this run's walk, and
\* an error and an error entry only if something failed in this run (so a
\* successful run after a failed one has no error entry and no error).
C34_FreshContextPerRun ==
    [][/\ (~InRun /\ pc' # pc) =>
             /\ context' = FreshContext
             /\ results' = <<>>
       /\ (InRun' /\ NothingFailed') =>
             /\ IsNone(context'.error)
             /\ \A k \in DOMAIN context'.results : ~Synthetic(context'.results[k])
       /\ InRun' =>
             /\ ~IsNone(context'.current_plan) =>
                   \/ RouterPlanAdopted'
                   \/ \E k \in DOMAIN calls' : calls'[k] = Call("generate_plan", "plan")
             /\ context'.confidence_score # 0 =>
                   \E k \in DOMAIN calls' : calls'[k] = Call("score", "returned")
             /\ ~IsNone(context'.cs_assessment) =>
                   \E k \in DOMAIN calls' : calls'[k].name = "evaluate_plan"
             /\ context'.summary # "" => \E k \in DOMAIN hist' : hist'[k] = REPORTING
             /\ \A k \in DOMAIN context'.results :
                   \/ context'.results[k] = ErrorEntry(context'.error)
                   \/ /\ k \in DOMAIN results'
                      /\ context'.results[k] = results'[k]]_vars

\* a run without a failure has returned a ledger of one successful step and
\* no error, on an orchestrator whose previous run ended with an error
\* entry and an error message
C34_Witness ==
    /\ pc = "done"
    /\ ~IsNone(earlier)
    /\ ~IsNone(Val(earlier).error)
    /\ Val(earlier).error_entry
    /\ NothingFailed
    /\ IsNone(context.error)
    /\ Len(context.results) = 1
    /\ context.results[1].status = "success"

----------------------------------------------------------------------------
\* the calls of the memory made in this step, by name
NewCallsOf(name) ==
    {k \in DOMAIN calls' : k > Len(calls) /\ calls'[k].name = name}

\* the memory records added in this run: the store calls that returned
RecordsAdded ==
    {k \in CallsOf("store_execution_result") : calls[k].returned = "returned"}

\* C35. The memory is used once per run in each direction:
\* get_context_for_planner is called at most once per run and only while in
\* Planning; store_execution_result is called exactly once on every run that
\* reaches Learning and never on a run that reaches ErrorRecovery before
\* Learning; so a run that returns completed has added exactly one memory
\* record and a run that returns failed has added none.
C35_MemoryOncePerRun ==
    [][/\ NewCallsOf("get_context_for_planner") # {} => pc = "run" /\ state = PLANNING
       /\ Cardinality(CallsOf("get_context_for_planner")') <= 1
       /\ Learns => Cardinality(NewCallsOf("store_execution_result")) = 1
       /\ NewCallsOf("store_execution_result") # {} => Learns
       /\ Cardinality(CallsOf("store_execution_result")') <= 1
       /\ pc' = "done" =>
             Cardinality(RecordsAdded') = IF EnteredErrorRecovery' THEN 0 ELSE 1]_vars

----------------------------------------------------------------------------
\* C36. The ledger returned by run accounts for every tool invoked in
\* Executing: also when a fault interrupts Executing after some steps' tools
\* have been invoked (the permission callback raising on a later step), the
\* returned ledger holds one entry for each step already invoked, in
\* execution order, followed by the error entry.
C36_LedgerAccountsForInvoked ==
    pc = "done" =>
        /\ \A i \in InvokedAt : Cardinality(EntriesOf(context.results, i)) = 1
        /\ \A i, j \in InvokedAt :
              i < j => \A a \in EntriesOf(context.results, i),
                          b \in EntriesOf(context.results, j) : a < b
        /\ ~IsNone(context.error) =>
              /\ Len(context.results) >= 1
              /\ context.results[Len(context.results)] = ErrorEntry(context.error)

----------------------------------------------------------------------------
\* execute_plan was entered by _handle_executing on the one-step plan of the
\* router
RouterWalk ==
    /\ confirm = "policy"
    /\ RouterPlanAdopted
    /\ plan = Val(context.current_plan)

\* C37. A router shortcut bypasses scoring and validation but not the
\* permission gate: the single step of a router-produced plan goes through
\* the same permission decision as any planned step, so its tool is invoked
\* only after the policy allowed it, and in Safe mode it is invoked only if
\* the confirmation collaborator approves and is skipped when no
\* collaborator is attached.
C37_ShortcutKeepsPermissionGate ==
    RouterWalk =>
        /\ \A k \in DOMAIN calls : calls[k].name \notin {"score", "evaluate_plan"}
        /\ \A k \in DOMAIN hist : hist[k] \notin {SCORING, VALIDATING}
        /\ \A k \in DOMAIN asked :
              \E a \in Answers :
                  asked[k].answer =
                      check_permission(safety_mode, Tools[asked[k].tool].risk_level,
                                       display, a)
        /\ 1 \in InvokedAt => 1 \in Answered("yes")
        /\ safety_mode = SAFE_MODE =>
              /\ 1 \in InvokedAt => display = "interactive"
              /\ (display # "interactive" /\ 1 \in LookedAt) =>
                    /\ 1 \in Answered("no")
                    /\ 1 \notin InvokedAt
                    /\ results = <<DeniedEntry(plan.steps[1])>>

\* a run in Safe mode has returned in which the router's plan was walked,
\* the display was asked for its one step and approved it, and the tool ran
C37_Witness ==
    /\ pc = "done"
    /\ RouterWalk
    /\ safety_mode = SAFE_MODE
    /\ display = "interactive"
    /\ asked = <<[pos |-> 1, tool |-> plan.steps[1].tool_name, answer |-> "yes"]>>
    /\ 1 \in InvokedAt
    /\ hist = <<NEGOTIATING, EXECUTING, REPORTING, LEARNING, IDLE>>

----------------------------------------------------------------------------
\* positions of the plan whose tool name is in the registry
ResolvedAt == {i \in DOMAIN plan.steps : plan.steps[i].tool_name \in list_names}

\* C38 as stated. The executor itself fails open: when execute_plan is called
\* without a confirm callback no permission decision is made at all, and
\* every step whose tool resolves in the registry is invoked regardless of
\* its risk tier.
C38_EveryResolvedStepInvoked ==
    (Returned /\ confirm = "none") =>
        /\ asked = <<>>
        /\ \A i \in ResolvedAt : i \in InvokedAt

\* C38 as amended. When execute_plan is called without a confirm callback no
\* permission decision is made at all, and every step the walk reaches whose
\* tool resolves in the registry is run regardless of its risk tier: its tool
\* is invoked, or running it failed before the tool was called; no entry is
\* "skipped". The steps the walk does not reach are those after a step with
\* on_failure "abort" that did not resolve or whose run failed.
C38_FailsOpen ==
    confirm = "none" =>
        /\ asked = <<>>
        /\ \A k \in DOMAIN results : results[k].status # "skipped"
        /\ \A i \in ResolvedAt \cap LookedAt :
              \/ i \in InvokedAt
              \/ \E k \in EntriesOf(results, i) : results[k] = FaultEntry(plan.steps[i])
        /\ Returned =>
              \A i \in ResolvedAt \ LookedAt :
                  \E j \in 1..(i - 1) :
                      /\ on_failure(plan.steps[j]) = "abort"
                      /\ j \notin InvokedAt
                      /\ \A k \in EntriesOf(results, j) : results[k].status = "failed"

\* execute_plan without a callback has returned after invoking a High-risk
\* and a Medium-risk tool
C38_Witness ==
    /\ Returned
    /\ confirm = "none"
    /\ Len(plan.steps) = 2
    /\ plan.steps[1].tool_name = "kill_process"
    /\ plan.steps[2].tool_name = "flush_dns"
    /\ InvokedAt = {1, 2}
    /\ asked = <<>>

----------------------------------------------------------------------------
\* C39. Validating is entered for every score below 0.8, but the risk
\* assessment is asked for only when the score is below 0.7: for
\* 0.7 <= score < 0.8 no assessment is requested, cs_assessment stays unset
\* and the plan proceeds to Executing unreviewed.
C39_ReviewOnlyBelowSeventy ==
    [][/\ (Scores /\ context'.confidence_score < 80) => state' = VALIDATING
       /\ Validates =>
             /\ context.confidence_score < 80
             /\ NewCallsOf("evaluate_plan") # {} <=> context.confidence_score < 70
       /\ (Validates /\ context.confidence_score >= 70) =>
             /\ calls' = calls
             /\ IsNone(context'.cs_assessment)
             /\ state' = EXECUTING
             /\ pc' = "run"]_vars

----------------------------------------------------------------------------
\* the calls of registered tools made outside execute_plan in this run
DirectToolCalls == {k \in DOMAIN calls : calls[k].name \in list_names}

\* C40. The only tool invocations in a run that are not preceded by an allow
\* decision of the permission policy are the four fixed diagnostic tools of
\* Diagnosing, which are invoked directly through the registry in every
\* safety mode, including Safe mode with no confirmation collaborator; every
\* tool invoked in Executing was allowed for that step first.
C40_OnlyDiagnosticsUngated ==
    [][/\ Diagnoses =>
             /\ asked = <<>> /\ asked' = <<>>
             /\ \A i \in 1..4 :
                   /\ calls'[Len(calls) + i].name = DiagnosticTools[i]
                   /\ calls'[Len(calls) + i].returned # "unregistered"
       /\ \A k \in DirectToolCalls' :
             /\ \E i \in 1..4 : calls'[k].name = DiagnosticTools[i]
             /\ k \notin DOMAIN calls => Diagnoses
       /\ Cardinality(DirectToolCalls') \in {0, 4}
       /\ \A k \in DOMAIN invoked' :
             /\ confirm' = "policy"
             /\ invoked'[k].pos \in Answered("yes")'
             /\ k \notin DOMAIN invoked => pc = "walk" /\ state = EXECUTING
             /\ \E a \in Answers :
                   check_permission(safety_mode, Tools[invoked'[k].tool].risk_level,
                                    display, a) = "yes"]_vars

\* a run in Safe mode without a display has returned: the four diagnostic
\* tools were called and succeeded, and both steps of the plan were denied
C40_Witness ==
    /\ pc = "done"
    /\ safety_mode = SAFE_MODE
    /\ display = "none"
    /\ \A i \in 1..4 : \E k \in DOMAIN calls : calls[k] = Call(DiagnosticTools[i], "success")
    /\ context.diagnostics = DiagnosticLabels
    /\ Answered("no") = {1, 2}
    /\ invoked = <<>>

====
